---- MODULE Spec2Model ----
(***************************************************************************)
(* A model of netapp/api.py: the Server connection object, the paginated   *)
(* query generator Server._get_paginated, Server.perform_call, the lookups *)
(* built on them and the with_vserver context manager.                     *)
(*                                                                         *)
(* XML elements are records [name, text, kids]; an element without text    *)
(* has text "".  Python's None / optional values are sequences of length   *)
(* 0 or 1.  Decimal texts are converted with ToString and parsed back      *)
(* with IntOf.  Reason strings are sequences of one-character strings so   *)
(* that str.rstrip can be computed.                                        *)
(***************************************************************************)
EXTENDS Integers, Sequences, FiniteSets, TLC

\* ------------------------------------------------------------- bounds
\* Largest number of records the server holds for one table.
MaxRecords == 3
\* Largest max_records value a caller passes.
MaxPageSize == 2
\* Deepest nesting of with_vserver blocks.
MaxDepth == 2
\* The most rules an export policy holds.
MaxRules == 3

\* ---------------------------------------------------- program constants
XMLNS == "http://www.netapp.com/filer/admin"
XMLNS_VERSION == "1.1"
DEFAULT_APP_NAME == "netapp-api-python"
OCUM_API_URL == "/apis/XMLrequest"
ONTAP_API_URL == "/servlets/netapp.servlets.admin.XMLrequest_filer"

\* ------------------------------------------------------ Python values
None == <<>>
Some(v) == <<v>>
\* Python truthiness of an optional string: None and "" are falsy.
Truthy(o) == o # None /\ o[1] # ""

\* str(int) and int(str) on decimal texts.
Str(k) == ToString(k)
IntDomain == 0..(MaxRecords + MaxPageSize + 20) \cup {13001, 13115}
IntOf(s) == CHOOSE k \in IntDomain : ToString(k) = s

\* str.rstrip(chars) on a sequence of characters.
RECURSIVE RStrip(_, _)
RStrip(s, chars) ==
    IF s # <<>> /\ s[Len(s)] \in chars
    THEN RStrip(SubSeq(s, 1, Len(s) - 1), chars)
    ELSE s

\* --------------------------------------------------------- XML elements
El(name, text, kids) == [name |-> name, text |-> text, kids |-> kids]
Leaf(name, text) == El(name, text, <<>>)

\* lxml Element.append: the child goes last.
ElAppend(el, child) == [el EXCEPT !.kids = Append(@, child)]

\* The positions of the direct children called name.
ChildIdx(el, name) == {i \in 1..Len(el.kids) : el.kids[i].name = name}

\* lxml Element.find(name): the first direct child called name, or None.
ElFind(el, name) ==
    IF ChildIdx(el, name) = {} THEN None
    ELSE Some(CHOOSE i \in ChildIdx(el, name) :
                 \A j \in ChildIdx(el, name) : i <= j)

\* lxml Element.remove(child), the child given by its position.
ElRemoveAt(el, i) ==
    [el EXCEPT !.kids = SubSeq(@, 1, i - 1) \o SubSeq(@, i + 1, Len(@))]

\* Element.findtext(path): the text of the first match of a path of child
\* names, None when there is no match.
RECURSIVE FindText(_, _)
FindText(el, path) ==
    IF path = <<>> THEN Some(el.text)
    ELSE IF ElFind(el, path[1]) = None THEN None
    ELSE FindText(el.kids[ElFind(el, path[1])[1]], Tail(path))

\* XPath ".../name/text()" under el: one text node per child called name
\* that has text; an element with empty content has no text node.
XPathTexts(el, name) ==
    LET named == SelectSeq(el.kids, LAMBDA k : k.name = name)
        texts == [i \in 1..Len(named) |-> named[i].text]
    IN SelectSeq(texts, LAMBDA t : t # "")

\* XPath ".../name/*" under el: the children of every child called name.
RECURSIVE Flatten(_)
Flatten(ss) == IF ss = <<>> THEN <<>> ELSE Head(ss).kids \o Flatten(Tail(ss))
XPathChildren(el, name) == Flatten(SelectSeq(el.kids, LAMBDA k : k.name = name))

\* ------------------------------------------------------- query builders
\* vocabulary._value_element: <name>str(value)</name>; the callers of this
\* model pass the text already converted.
value_element(name, text) == Leaf(name, text)

\* vocabulary._with_children.
with_children(name, children) == El(name, "", children)

\* An optional part of a query: nothing for None.
OptEl(o, el) == IF o = None THEN <<>> ELSE <<el>>
MapSeq(s, F(_)) == [i \in 1..Len(s) |-> F(s[i])]

\* The keyword arguments of events.filter; timeout stands for
\* kwargs.get('timeout', 0).
NoKwargs ==
    [severities |-> None, states |-> None, greater_than_id |-> None,
     time_range |-> None, max_records |-> None, timeout |-> None,
     source |-> None]

\* EventLog.filter: the api_call it builds.
EventFilterQuery(kw) ==
    with_children("event-iter",
        OptEl(kw.greater_than_id,
              value_element("greater-than-id", Str(kw.greater_than_id[1])))
        \o OptEl(kw.time_range,
              with_children("time-range",
                <<with_children("event-timestamp-range",
                    <<value_element("end-time", Str(kw.time_range[1][2])),
                      value_element("start-time", Str(kw.time_range[1][1]))>>)>>))
        \o OptEl(kw.states,
              with_children("event-state-filter-list",
                MapSeq(kw.states[1], LAMBDA x : value_element("event-state", x))))
        \o OptEl(kw.severities,
              with_children("event-severities",
                MapSeq(kw.severities[1], LAMBDA x : value_element("obj-status", x))))
        \o OptEl(kw.max_records,
              value_element("max-records", Str(kw.max_records[1])))
        \o OptEl(kw.source, value_element("source", kw.source[1]))
        \o <<value_element("timeout",
                Str(IF kw.timeout = None THEN 0 ELSE kw.timeout[1]))>>)

\* EventLog.single_by_id: the api_call it builds.
SingleByIdQuery(id) ==
    with_children("event-iter", <<value_element("event-id", Str(id))>>)

\* The module-level list VOL_FIELDS: six elements created once at import.
VOL_FIELDS ==
    <<El("volume-id-attributes", "",
         <<Leaf("name", ""), Leaf("uuid", ""), Leaf("junction-path", ""),
           Leaf("containing-aggregate-name", ""), Leaf("node", ""),
           Leaf("owning-vserver-name", ""), Leaf("creation-time", "")>>),
      El("volume-space-attributes", "",
         <<Leaf("size-total", ""), Leaf("size-used", ""),
           Leaf("percentage-snapshot-reserve", ""),
           Leaf("percentage-snapshot-reserve-used", "")>>),
      El("volume-autosize-attributes", "",
         <<Leaf("is-enabled", ""), Leaf("maximum-size", "")>>),
      El("volume-state-attributes", "", <<Leaf("state", "")>>),
      El("volume-export-attributes", "", <<Leaf("policy", "")>>),
      El("volume-hybrid-cache-attributes", "", <<Leaf("caching-policy", "")>>)>>

\* VolumeList.filter: the api_call it builds.  attrs is the **query
\* dictionary as a sequence of <<keyword, value>> pairs (keywords already
\* hyphenated).
VolumeFilterQuery(max_records, attrs) ==
    with_children("volume-get-iter",
        <<El("desired-attributes", "",
             <<El("volume-attributes", "", VOL_FIELDS)>>)>>
        \o OptEl(max_records, value_element("max-records", Str(max_records[1])))
        \o (IF attrs = <<>> THEN <<>>
            ELSE <<El("query", "",
                     <<El("volume-attributes", "",
                          <<El("volume-id-attributes", "",
                               MapSeq(attrs, LAMBDA a : Leaf(a[1], a[2])))>>)>>)>>))

\* An element can sit in one tree only: building a new volume-get-iter
\* appends the six VOL_FIELDS elements to the new tree, which takes them
\* out of the tree that held them before.
WithoutVolFields(api_call) ==
    IF api_call.name = "volume-get-iter"
    THEN [api_call EXCEPT !.kids[1].kids[1].kids = <<>>]
    ELSE api_call

\* VolumeList.make_volume: the sis-get-iter api_call for one volume.
SisQuery(name, vserver) ==
    El("sis-get-iter", "",
       <<El("desired-attributes", "",
            <<El("sis-status-info", "",
                 <<Leaf("is-compression-enabled", ""),
                   Leaf("is-inline-compression-enabled", "")>>)>>),
         El("query", "",
            <<El("sis-status-info", "",
                 <<Leaf("path", "/vol/" \o name), Leaf("vserver", vserver)>>)>>)>>)

\* vocabulary.tag.
TagEl(text) == Leaf("tag", text)

\* A slip: the tag of the last page is left in the query.
NextApiCallKeepOld(api_call, next_tag) == ElAppend(api_call, TagEl(next_tag))

\* The last lines of the loop of _get_paginated: the query of the next
\* page, made from the query of this page and the tag the server returned.
NextApiCall(api_call, next_tag) ==
    LET tag_element == ElFind(api_call, "tag")
        removed == IF tag_element # None
                   THEN ElRemoveAt(api_call, tag_element[1])
                   ELSE api_call
    IN ElAppend(removed, TagEl(next_tag))

\* A slip: the vfiler attribute is set whatever the context is.
EnvelopeAlwaysScoped(api_call, vf, app_name) ==
    [name |-> "netapp", text |-> "", kids |-> <<api_call>>,
     attrib |-> [xmlns |-> XMLNS, version |-> XMLNS_VERSION,
                 nmsdk_app |-> app_name,
                 vfiler |-> IF vf = None THEN Some("None") ELSE vf]]

\* perform_call, first lines: the envelope around the query.
Envelope(api_call, vf, app_name) ==
    [name |-> "netapp", text |-> "", kids |-> <<api_call>>,
     attrib |-> [xmlns |-> XMLNS, version |-> XMLNS_VERSION,
                 nmsdk_app |-> app_name,
                 vfiler |-> IF Truthy(vf) THEN vf ELSE None]]

\* ------------------------------------------------------------ the server
\* The server is outside the repository.  It is modelled from the wire
\* protocol: a results node with a status, and on success num-records, a
\* container of records and an optional next-tag.
Min(a, b) == IF a <= b THEN a ELSE b

RawEvent(i) ==
    El("event-info", "",
       <<Leaf("event-id", Str(i)), Leaf("event-name", "volume-full"),
         Leaf("event-severity", "warning"), Leaf("event-state", "NEW"),
         Leaf("event-time", Str(10 + i))>>)

RawVolume(i) ==
    El("volume-attributes", "",
       <<El("volume-id-attributes", "",
            <<Leaf("name", "v" \o Str(i)), Leaf("uuid", "u" \o Str(i)),
              Leaf("owning-vserver-name", "vs1")>>),
         El("volume-space-attributes", "", <<Leaf("size-total", Str(i))>>),
         El("volume-autosize-attributes", "", <<Leaf("is-enabled", "true")>>)>>)

\* The SIS subsystem is on for the volumes with an odd number.
RawSis(i) ==
    El("sis-status-info", "",
       <<Leaf("is-compression-enabled", "true"),
         Leaf("is-inline-compression-enabled", IF i = 1 THEN "true" ELSE "false")>>)

\* The records, in the server's order, that match query q when the table
\* holds n records.
Matching(q, n) ==
    LET opt(path) == FindText(q, path)
    IN CASE q.name = "event-iter" ->
              SelectSeq([i \in 1..n |-> RawEvent(i)],
                  LAMBDA r :
                     /\ opt(<<"greater-than-id">>) # None
                          => IntOf(FindText(r, <<"event-id">>)[1])
                               > IntOf(opt(<<"greater-than-id">>)[1])
                     /\ opt(<<"event-id">>) # None
                          => FindText(r, <<"event-id">>) = opt(<<"event-id">>))
         [] q.name = "volume-get-iter" ->
              SelectSeq([i \in 1..n |-> RawVolume(i)],
                  LAMBDA r :
                     LET want == opt(<<"query", "volume-attributes",
                                       "volume-id-attributes", "name">>)
                     IN want # None
                          => FindText(r, <<"volume-id-attributes", "name">>) = want)
         [] q.name = "sis-get-iter" ->
              LET path == opt(<<"query", "sis-status-info", "path">>)
                  hit == {i \in 1..n : i % 2 = 1 /\ path = Some("/vol/v" \o Str(i))}
              IN IF hit = {} THEN <<>> ELSE <<RawSis(CHOOSE i \in hit : TRUE)>>
         [] OTHER -> <<>>

\* The name of the container the server puts the records in.
ContainerOf(q) == IF q.name = "event-iter" THEN "records" ELSE "attributes-list"

\* The opaque continuation tag the server issues for an offset.
Tag(off) == "T" \o Str(off)
TagOffsets(t) == {i \in 0..(MaxRecords + 1) : Tag(i) = t}

\* The statuses of HTTP replies tried: OK, one of the 3xx class that is
\* not a redirection to follow, one of the 4xx and one of the 5xx class.
HttpStatuses == {200, 304, 404, 503}

\* What the session's post may raise instead of returning a reply.
HttpExceptions == {"Timeout", "ConnectionError"}

\* A reply to a POST: the results element of its body, the HTTP status it
\* came with, and the exception of the HTTP layer if the reply never came.
Results(status, reason, errno, kids) ==
    [name |-> "results", text |-> "", kids |-> kids,
     attrib |-> [status |-> status, reason |-> reason, errno |-> errno],
     status_code |-> 200, http_exc |-> ""]

Passed(q, num, recs, tags) ==
    Results("passed", <<>>, "",
            <<Leaf("num-records", Str(num)), El(ContainerOf(q), "", recs)>>
            \o MapSeq(tags, LAMBDA t : Leaf("next-tag", t)))

Failed(reason, errno) == Results("failed", reason, Str(errno), <<>>)

InvalidTag == Failed(<<"B", "a", "d", " ", "t", "a", "g">>, 13115)

\* What an honest server answers to envelope env: the page that starts at
\* the offset of the tag of the request and holds at most max-records
\* records, with a next-tag when records remain.  When a page ends exactly
\* at the end of the result the server may or may not announce one more
\* (empty) page.
HonestPages(env, n) ==
    LET q    == env.kids[1]
        D    == Matching(q, n)
        tg   == ElFind(q, "tag")
        offs == IF tg = None THEN {0} ELSE TagOffsets(q.kids[tg[1]].text)
        mr   == FindText(q, <<"max-records">>)
        k    == IF mr = None THEN Len(D) + 1 ELSE IntOf(mr[1])
        page(off) == SubSeq(D, off + 1, Min(off + k, Len(D)))
    IN IF offs = {} THEN {InvalidTag}
       ELSE LET off == CHOOSE o \in offs : TRUE
            IN {Passed(q, Len(page(off)), page(off),
                       IF off + k < Len(D) THEN <<Tag(off + k)>> ELSE <<>>)}
               \cup (IF off + k = Len(D) /\ Len(D) > 0
                     THEN {Passed(q, Len(page(off)), page(off), <<Tag(off + k)>>)}
                     ELSE {})

\* The reasons and error numbers a failing answer may carry.
Reasons ==
    {<<"B", "a", "d">>, <<"B", "a", "d", ".">>, <<"B", ".", "a", ".", " ">>}
Errnos == {14, 13001}

\* Answers that break the protocol: a record count that is not the number
\* of records, and a next-tag element that is present but empty.
Miscounted(env, n) ==
    LET pages == {h \in HonestPages(env, n) : h.attrib.status = "passed"}
    IN {[r EXCEPT !.kids[1] = Leaf("num-records", Str(Len(r.kids[2].kids) + 1))] :
           r \in pages}
       \cup {[r EXCEPT !.kids[1] = Leaf("num-records", Str(Len(r.kids[2].kids) - 1))] :
                r \in {h \in pages : h.kids[2].kids # <<>>}}

EmptyTagged(env, n) ==
    {[r EXCEPT !.kids = SubSeq(@, 1, 2) \o <<Leaf("next-tag", "")>>] :
        r \in {h \in HonestPages(env, n) : h.attrib.status = "passed"}}

Failures == {Failed(reason, errno) : reason \in Reasons, errno \in Errnos}

\* The honest page that comes with another HTTP status, or does not come.
TransportFaults(env, n) ==
    {[p EXCEPT !.status_code = c] :
        p \in HonestPages(env, n), c \in HttpStatuses \ {200}}
    \cup {[p EXCEPT !.http_exc = e] :
            p \in HonestPages(env, n), e \in HttpExceptions}

\* Every answer the server may give to envelope env.
ServerResponses(env, n) ==
    HonestPages(env, n) \cup Miscounted(env, n) \cup EmptyTagged(env, n)
    \cup Failures \cup TransportFaults(env, n)

\* ------------------------------------------------- errors and records
\* An exception object.  APIError.__init__ strips dots and blanks from the
\* end of the message and keeps the serialised failing query.
APIError(message, errno, failing_query) ==
    [type |-> "APIError", msg |-> RStrip(message, {".", " "}),
     errno |-> errno, failing_query |-> failing_query]

OtherError(type) ==
    [type |-> type, msg |-> <<>>, errno |-> None, failing_query |-> None]

\* Response.raise_for_status of the HTTP library: HTTPError for a status
\* of the 4xx or 5xx class, nothing for any other.
raise_for_status(status_code) == status_code \in 400..599

\* A slip: the status of the answer is not looked at.
perform_call_unchecked(api_call, vf, resp) ==
    [request |-> Envelope(api_call, vf, DEFAULT_APP_NAME), raised |-> FALSE,
     response |-> Some(resp), exc |-> None]

\* perform_call on query api_call while the vserver context is vf, when the
\* server answers resp: the envelope sent, and the response returned or
\* the APIError raised.
perform_call(api_call, vf, resp) ==
    LET query_root == Envelope(api_call, vf, DEFAULT_APP_NAME)
        status == resp.attrib.status
    IN IF resp.http_exc # ""
       THEN [request |-> query_root, raised |-> TRUE, response |-> None,
             exc |-> Some(OtherError(resp.http_exc))]
       ELSE IF raise_for_status(resp.status_code)
       THEN [request |-> query_root, raised |-> TRUE, response |-> None,
             exc |-> Some(OtherError("HTTPError"))]
       ELSE IF status # "passed"
       THEN [request |-> query_root, raised |-> TRUE, response |-> None,
             exc |-> Some(APIError(resp.attrib.reason,
                                   Some(IntOf(resp.attrib.errno)),
                                   Some(query_root)))]
       ELSE [request |-> query_root, raised |-> FALSE, response |-> Some(resp),
             exc |-> None]

\* _child_get_string and _child_get_int.
child_get_string(parent, path) == FindText(parent, path)
\* int() raises ValueError on a text that is no number, and _child_get_int
\* answers None then.
IsInt(s) == \E k \in IntDomain : ToString(k) = s
child_get_int(parent, path) ==
    IF FindText(parent, path) = None THEN None
    ELSE IF ~IsInt(FindText(parent, path)[1]) THEN None
    ELSE Some(IntOf(FindText(parent, path)[1]))

read_bool(s) == s = Some("true")

\* Event.__init__ (the fields the server of this model fills in).
Event(raw_event) ==
    [id |-> IntOf(child_get_string(raw_event, <<"event-id">>)[1]),
     name |-> child_get_string(raw_event, <<"event-name">>),
     severity |-> child_get_string(raw_event, <<"event-severity">>),
     state |-> child_get_string(raw_event, <<"event-state">>),
     timestamp |-> IntOf(child_get_string(raw_event, <<"event-time">>)[1])]

\* Volume.__init__ (the fields the server of this model fills in).
Volume(raw_object, compression, inline) ==
    [compression_enabled |-> compression,
     inline_compression |-> inline,
     uuid |-> child_get_string(raw_object, <<"volume-id-attributes", "uuid">>),
     name |-> child_get_string(raw_object, <<"volume-id-attributes", "name">>),
     size_total_bytes |->
         child_get_int(raw_object, <<"volume-space-attributes", "size-total">>),
     autosize_enabled |->
         read_bool(child_get_string(raw_object,
                     <<"volume-autosize-attributes", "is-enabled">>)),
     owning_vserver_name |->
         child_get_string(raw_object,
                          <<"volume-id-attributes", "owning-vserver-name">>)]

\* A slip: the two flags of the record end up in each other's place.
extract_compression_swapped(attributes_list) ==
    <<read_bool(child_get_string(attributes_list,
                                 <<"is-inline-compression-enabled">>)),
      read_bool(child_get_string(attributes_list, <<"is-compression-enabled">>))>>

\* make_volume.extract_compression.
extract_compression(attributes_list) ==
    <<read_bool(child_get_string(attributes_list, <<"is-compression-enabled">>)),
      read_bool(child_get_string(attributes_list,
                                 <<"is-inline-compression-enabled">>))>>

\* ---------------------------------------------------------------- state
VARIABLES
    vfiler,   \* Server.vfiler: the vserver context, an optional string
    stack,    \* the old_vfiler of every with_vserver block that is open
    gens,     \* the generators made by _get_paginated, by slot
    ctl,      \* the call stack of running generators; <<>>: user code runs
    nrec,     \* how many records each table of the server holds
    last,     \* the answer to and outcome of the last one-shot call
    srv       \* the export policy on the server and its history

vars == <<vfiler, stack, gens, ctl, nrec, last, srv>>

\* Two generators the user holds, and the one make_volume makes and drops.
GenIds == {1, 2}
SisSlot == Cardinality(GenIds) + 1
Slots == GenIds \cup {SisSlot}

\* The vserver names a caller uses: None, "" (both cluster mode) and a name.
Vservers == {None, Some(""), Some("vs1")}

\* A slot that holds no generator.  The fields of a generator: its
\* position pc, who drives it, the arguments of _get_paginated, its local
\* variables api_call, response, counter and the position idx in the
\* records of the page; and what was observed of it: the call that made
\* it, the query as built, the requests sent, the answers received, the
\* values yielded, the exception that ended it, the outcome of the lookup
\* that drove it, whether every answer so far was an honest page, and the
\* vserver context it was made in.
NoGen ==
    [pc |-> "idle", driver |-> "", constructor |-> "",
     api_call |-> El("", "", <<>>), endpoint |-> "", container_tag |-> None,
     response |-> None, idx |-> 0, counter |-> 0,
     call |-> None, initial |-> None, sent |-> <<>>, answers |-> <<>>,
     out |-> <<>>, exc |-> None, result |-> None, honest |-> TRUE,
     made_in |-> None]

\* _get_paginated, first lines: the URL of the endpoint.
ApiUrl(endpoint) ==
    IF endpoint = "OCUM" THEN OCUM_API_URL ELSE ONTAP_API_URL

\* A slip: the first page is asked for when the generator is made.
get_paginated_eager(api_call, endpoint, constructor, container_tag, driver, call) ==
    [NoGen EXCEPT !.pc = "created", !.driver = driver,
                  !.constructor = constructor, !.api_call = api_call,
                  !.endpoint = endpoint, !.container_tag = container_tag,
                  !.call = Some(call), !.initial = Some(api_call),
                  !.made_in = Some(vfiler),
                  !.sent = <<[url |-> ApiUrl(endpoint),
                              request |-> Envelope(api_call, None,
                                                   DEFAULT_APP_NAME)]>>]

\* Calling _get_paginated makes a generator; nothing of its body runs yet.
get_paginated(api_call, endpoint, constructor, container_tag, driver, call) ==
    [NoGen EXCEPT !.pc = "created", !.driver = driver,
                  !.constructor = constructor, !.api_call = api_call,
                  !.endpoint = endpoint, !.container_tag = container_tag,
                  !.call = Some(call), !.initial = Some(api_call),
                  !.made_in = Some(vfiler)]

\* A slip: the count is not checked (as when assertions are off).
CountUnchecked(num_records, records) == TRUE

\* _get_paginated: "assert num_records == len(records)".
CountMatches(num_records, records) == num_records = Len(records)

\* A slip in the XPath: the element is looked up under the name the request
\* uses for it.
PotentialNextTagWrongName(response) == XPathTexts(response, "tag")

\* _get_paginated: the text nodes of the next-tag of a response.
PotentialNextTag(response) == XPathTexts(response, "next-tag")

\* _get_paginated: the records of a response under the container tag.
RecordsOf(response, container_tag) == XPathChildren(response, container_tag)

\* A slip: the records of a page are gone through from the last one.
RecordsReversed(gn) ==
    IF gn.response = None THEN <<>>
    ELSE LET r == RecordsOf(gn.response[1], gn.container_tag[1])
         IN [i \in 1..Len(r) |-> r[Len(r) + 1 - i]]

\* The records of the page generator gn is going through.
Records(gn) ==
    IF gn.response = None THEN <<>>
    ELSE RecordsOf(gn.response[1], gn.container_tag[1])

Top(c) == c[Len(c)]
Pop(c) == SubSeq(c, 1, Len(c) - 1)

Yielded(v) == [kind |-> "yield", value |-> Some(v), exc |-> None]
Stopped == [kind |-> "stop", value |-> None, exc |-> None]
Raised(e) == [kind |-> "raise", value |-> None, exc |-> Some(e)]
Returns(v) == Some([kind |-> "return", value |-> Some(v), exc |-> None])
Raises(e) == Some([kind |-> "raise", value |-> None, exc |-> Some(e)])

\* A slip: an exception inside the loop is swallowed and the page fetched
\* again at the next pull.
LeaveRetry(gn, ev) ==
    CASE ev.kind = "yield" -> [gn EXCEPT !.pc = "yielded",
                                         !.out = Append(@, ev.value[1])]
      [] ev.kind = "stop"  -> [gn EXCEPT !.pc = "done"]
      [] OTHER             -> [gn EXCEPT !.pc = "created"]

\* A Python generator when ev leaves it: it is suspended at the yield, or
\* finished by its return or by the exception.
Leave(gn, ev) ==
    CASE ev.kind = "yield" -> [gn EXCEPT !.pc = "yielded",
                                         !.out = Append(@, ev.value[1])]
      [] ev.kind = "stop"  -> [gn EXCEPT !.pc = "done"]
      [] OTHER             -> [gn EXCEPT !.pc = "raised", !.exc = ev.exc]

\* A slip: without a match the loop falls through and None is returned.
SingleByIdResultNone(ev) ==
    CASE ev.kind = "yield" -> Returns(ev.value[1])
      [] ev.kind = "stop"  -> Returns(None)
      [] OTHER             -> Raises(ev.exc[1])

\* EventLog.single_by_id: the first event, KeyError when there is none; an
\* exception of the generator passes through.
SingleByIdResult(ev) ==
    CASE ev.kind = "yield" -> Returns(ev.value[1])
      [] ev.kind = "stop"  -> Raises(OtherError("KeyError"))
      [] OTHER             -> Raises(ev.exc[1])

\* VolumeList.single, once list() has all the volumes: volumes[0], which
\* raises IndexError on an empty list.
SingleResult(volumes) ==
    IF volumes = <<>> THEN Raises(OtherError("IndexError"))
    ELSE Returns(volumes[1])

\* What the code that drives generator g does when ev leaves g: user code
\* gets the value, the end or the exception; single_by_id returns at the
\* first value and drops the generator; list() in single pulls on until
\* the end.  The result is the new generators and call stack.
DriveTop(gs, g, ev) ==
    LET gn == Leave(gs[g], ev)
    IN CASE gn.driver = "single_by_id" ->
              [ctl |-> <<>>,
               gens |-> [gs EXCEPT ![g] =
                  [gn EXCEPT !.pc = IF ev.kind = "yield" THEN "closed" ELSE @,
                             !.result = SingleByIdResult(ev)]]]
         [] gn.driver = "single" ->
              IF ev.kind = "yield"
              THEN [ctl |-> <<g>>,
                    gens |-> [gs EXCEPT ![g] = [gn EXCEPT !.pc = "loop"]]]
              ELSE [ctl |-> <<>>,
                    gens |-> [gs EXCEPT ![g] =
                       [gn EXCEPT !.result =
                           IF ev.kind = "raise" THEN Raises(ev.exc[1])
                           ELSE SingleResult(gn.out)]]]
         [] OTHER -> [ctl |-> <<>>, gens |-> [gs EXCEPT ![g] = gn]]

\* The same when the generator is the one make_volume pulls once: its
\* first value, or (False, False) when it ends, makes the Volume that the
\* volume listing below it on the call stack yields; an exception leaves
\* make_volume and the listing with it.
Drive(gs, c, ev) ==
    IF gs[Top(c)].driver # "make_volume" THEN DriveTop(gs, Top(c), ev)
    ELSE LET p   == Top(Pop(c))
             gs1 == [gs EXCEPT ![Top(c)] = Leave(@, ev)]
             el  == Records(gs[p])[gs[p].idx]
             cmp == IF ev.kind = "yield" THEN ev.value[1] ELSE <<FALSE, FALSE>>
         IN IF ev.kind = "raise" THEN DriveTop(gs1, p, ev)
            ELSE DriveTop(gs1, p, Yielded(Volume(el, cmp[1], cmp[2])))

\* -------------------------------------------------------------- inputs
PageSizes == {None} \cup {Some(k) : k \in 1..MaxPageSize}

\* The filters tried with events.filter: none, greater_than_id, and the
\* combination of time_range, severities and states; each with every page
\* size.
EventFilterInputs ==
    {[f EXCEPT !.max_records = mr] :
        mr \in PageSizes,
        f \in {NoKwargs,
               [NoKwargs EXCEPT !.greater_than_id = Some(1)],
               [NoKwargs EXCEPT !.time_range = Some(<<5, 9>>),
                                !.severities = Some(<<"warning", "information">>),
                                !.states = Some(<<"new">>)]}}

\* ---------------------------------------------------------------- Init
Init ==
    /\ vfiler \in {Some(""), Some("vs1")}
    /\ stack = <<>>
    /\ gens = [g \in Slots |-> NoGen]
    /\ ctl = <<>>
    /\ nrec \in 0..MaxRecords
    /\ last = None
    /\ srv = [policy |-> None, heads |-> None]

\* ------------------------------------------------------------- actions
\* events.filter(**kw) put in slot g.
events_filter(gs, g, kw) ==
    [gs EXCEPT ![g] =
        get_paginated(EventFilterQuery(kw), "OCUM", "Event", Some("records"),
                      "user", [op |-> "events.filter", kw |-> kw])]

\* volumes.filter(max_records, **attrs) put in slot g, for the code named
\* driver to pull: the query is built around the VOL_FIELDS elements, which
\* leave the query that held them.
volumes_filter(gs, g, max_records, attrs, driver) ==
    [h \in Slots |->
        IF h = g
        THEN get_paginated(VolumeFilterQuery(max_records, attrs), "ONTAP",
                           "make_volume", Some("attributes-list"), driver,
                           [op |-> "volumes.filter",
                            max_records |-> max_records, attrs |-> attrs])
        ELSE [gs[h] EXCEPT !.api_call = WithoutVolFields(@)]]

\* User code calls events.filter with one of inputs.
EventsFilter(g, inputs) ==
    /\ ctl = <<>> /\ gens[g].pc = "idle"
    /\ \E kw \in inputs : gens' = events_filter(gens, g, kw)
    /\ UNCHANGED <<vfiler, stack, ctl, nrec, last, srv>>

\* User code calls volumes.filter with one of the page sizes.
VolumesFilter(g, sizes) ==
    /\ ctl = <<>> /\ gens[g].pc = "idle"
    /\ \E mr \in sizes : gens' = volumes_filter(gens, g, mr, <<>>, "user")
    /\ UNCHANGED <<vfiler, stack, ctl, nrec, last, srv>>

\* User code, having read a whole listing without max_records, asks for the
\* same listing again in pages of k records.
Repaginate ==
    /\ ctl = <<>> /\ gens[2].pc = "idle"
    /\ gens[1].pc = "done" /\ gens[1].driver = "user" /\ gens[1].honest
    /\ LET c == gens[1].call[1]
       IN \E k \in 1..MaxPageSize :
             IF c.op = "events.filter"
             THEN /\ c.kw.max_records = None
                  /\ gens' = events_filter(gens, 2,
                                [c.kw EXCEPT !.max_records = Some(k)])
             ELSE /\ c.max_records = None
                  /\ gens' = volumes_filter(gens, 2, Some(k), c.attrs, "user")
    /\ UNCHANGED <<vfiler, stack, ctl, nrec, last, srv>>

\* User code calls events.single_by_id(id), with a known id or one past the
\* last: the generator is made and pulled at once.
SingleById(g) ==
    /\ ctl = <<>> /\ gens[g].pc = "idle"
    /\ \E id \in {1, nrec + 1} :
          gens' = [gens EXCEPT ![g] =
                      [get_paginated(SingleByIdQuery(id), "OCUM", "Event",
                                     Some("records"), "single_by_id",
                                     [op |-> "events.single_by_id", id |-> id])
                         EXCEPT !.pc = "fetch"]]
    /\ ctl' = <<g>>
    /\ UNCHANGED <<vfiler, stack, nrec, last, srv>>

\* User code calls volumes.single(name, vserver): filter() builds the query
\* and list() pulls the generator to its end.
VolumesSingle(g) ==
    /\ ctl = <<>> /\ gens[g].pc = "idle"
    /\ \E name \in {"v1", "v0"}, vserver \in {None, Some("vs1")} :
          LET attrs == <<<<"name", name>>>>
                       \o (IF Truthy(vserver) THEN <<<<"vserver", vserver[1]>>>>
                           ELSE <<>>)
          IN gens' = [volumes_filter(gens, g, None, attrs, "single")
                         EXCEPT ![g].pc = "fetch"]
    /\ ctl' = <<g>>
    /\ UNCHANGED <<vfiler, stack, nrec, last, srv>>

\* User code pulls the next value of a generator it holds: the generator
\* starts, or goes on after the yield it stopped at.
Pull(g) ==
    /\ ctl = <<>> /\ gens[g].driver = "user"
    /\ gens[g].pc \in {"created", "yielded"}
    /\ gens' = [gens EXCEPT ![g].pc = IF @ = "created" THEN "fetch" ELSE "loop"]
    /\ ctl' = <<g>>
    /\ UNCHANGED <<vfiler, stack, nrec, last, srv>>

\* A slip: every page is sent in the context of the first page.
ContextOfFirstPage(gn) ==
    IF gn.sent = <<>> THEN vfiler ELSE gn.sent[1].request.attrib.vfiler

\* The vserver context of a page request: perform_call reads self.vfiler
\* when it builds the envelope, at every call.
ContextAtSend(gn) == vfiler

\* _get_paginated, top of the loop: one perform_call, answered by an
\* honest page (faithful) or by any answer of the server, and the record
\* count checked against the records.
Fetch(g, faithful) ==
    /\ ctl # <<>> /\ g = Top(ctl) /\ gens[g].pc = "fetch"
    /\ \E resp \in
          (LET env == Envelope(gens[g].api_call, ContextAtSend(gens[g]),
                               DEFAULT_APP_NAME)
           IN IF faithful THEN HonestPages(env, nrec)
              ELSE ServerResponses(env, nrec)) :
          LET gn  == gens[g]
              r   == perform_call(gn.api_call, ContextAtSend(gn), resp)
              gs1 == [gens EXCEPT ![g] =
                        [gn EXCEPT !.counter = @ + 1,
                                   !.sent = Append(@, [url |-> ApiUrl(gn.endpoint),
                                                       request |-> r.request]),
                                   !.answers = Append(@, resp),
                                   !.honest = @ /\ resp \in HonestPages(r.request, nrec)
                                                /\ resp.attrib.status = "passed"]]
              num_records == IntOf(XPathTexts(resp, "num-records")[1])
              records == RecordsOf(resp, gn.container_tag[1])
              d == IF r.raised THEN Drive(gs1, ctl, Raised(r.exc[1]))
                   ELSE IF gn.container_tag = None THEN Drive(gs1, ctl, Stopped)
                   ELSE IF ~CountMatches(num_records, records)
                   THEN Drive(gs1, ctl, Raised(OtherError("AssertionError")))
                   ELSE [ctl |-> ctl,
                         gens |-> [gs1 EXCEPT ![g].pc = "loop",
                                              ![g].response = r.response,
                                              ![g].idx = 0]]
          IN gens' = d.gens /\ ctl' = d.ctl
    /\ UNCHANGED <<vfiler, stack, nrec, last, srv>>

\* make_volume, up to next(result): the sis-get-iter generator for the
\* volume record el, already pulled.
make_volume_sis(el) ==
    [get_paginated(
        SisQuery(child_get_string(el, <<"volume-id-attributes", "name">>)[1],
                 child_get_string(el, <<"volume-id-attributes",
                                        "owning-vserver-name">>)[1]),
        "ONTAP", "extract_compression", Some("attributes-list"), "make_volume",
        [op |-> "make_volume"])
     EXCEPT !.pc = "fetch"]

\* _get_paginated, "for el in records: yield constructor(el)": the next
\* record goes through the constructor.  Event and extract_compression
\* return at once and the value is yielded; make_volume first builds a
\* sis-get-iter generator and pulls it.
YieldRecord(g) ==
    /\ ctl # <<>> /\ g = Top(ctl) /\ gens[g].pc = "loop"
    /\ gens[g].idx < Len(Records(gens[g]))
    /\ LET gn  == gens[g]
           el  == Records(gn)[gn.idx + 1]
           gs1 == [gens EXCEPT ![g].idx = @ + 1]
           d == CASE gn.constructor = "Event" -> Drive(gs1, ctl, Yielded(Event(el)))
                  [] gn.constructor = "extract_compression" ->
                       Drive(gs1, ctl, Yielded(extract_compression(el)))
                  [] OTHER ->
                       [ctl |-> Append(ctl, SisSlot),
                        gens |-> [gs1 EXCEPT ![g].pc = "construct",
                                             ![SisSlot] = make_volume_sis(el)]]
       IN gens' = d.gens /\ ctl' = d.ctl
    /\ UNCHANGED <<vfiler, stack, nrec, last, srv>>

\* _get_paginated, after the records of a page: without a next-tag text the
\* loop ends; with one the query gets the tag and the loop goes round.
EndOfPage(g) ==
    /\ ctl # <<>> /\ g = Top(ctl) /\ gens[g].pc = "loop"
    /\ gens[g].idx = Len(Records(gens[g]))
    /\ LET gn == gens[g]
           potential_next_tag == PotentialNextTag(gn.response[1])
           d == IF potential_next_tag = <<>> THEN Drive(gens, ctl, Stopped)
                ELSE [ctl |-> ctl,
                      gens |-> [gens EXCEPT
                         ![g].api_call = NextApiCall(@, potential_next_tag[1]),
                         ![g].pc = "fetch"]]
       IN gens' = d.gens /\ ctl' = d.ctl
    /\ UNCHANGED <<vfiler, stack, nrec, last, srv>>

\* with_vserver(v), up to the yield: the block is entered.
WithVserver(v) ==
    /\ ctl = <<>> /\ Len(stack) < MaxDepth
    /\ stack' = Append(stack, vfiler)
    /\ vfiler' = v
    /\ UNCHANGED <<gens, ctl, nrec, last, srv>>

\* with_vserver, after the yield: the block ends normally and the generator
\* of the context manager runs on.
ExitVserver ==
    /\ ctl = <<>> /\ stack # <<>>
    /\ vfiler' = Top(stack)
    /\ stack' = Pop(stack)
    /\ UNCHANGED <<gens, ctl, nrec, last, srv>>

\* with_vserver when the block raises (the error of a call made in it, or
\* any other): the exception is thrown into the generator at the yield,
\* which is not inside a try, so the lines after the yield do not run.
ExitVserverRaise ==
    /\ ctl = <<>> /\ stack # <<>>
    /\ stack' = Pop(stack)
    /\ UNCHANGED <<vfiler, gens, ctl, nrec, last, srv>>

\* What the server may answer to system-about.
AboutAnswers ==
    {Results("passed", <<>>, "", <<Leaf("version", "7.2")>>)} \cup Failures

\* Server.ocum_version: one perform_call of system-about; the version is
\* returned or the APIError leaves the property.
OcumVersion ==
    /\ ctl = <<>>
    /\ \E resp \in AboutAnswers :
          LET r == perform_call(Leaf("system-about", ""), vfiler, resp)
          IN last' = Some([answer |-> resp, outcome |-> r, context |-> vfiler,
                           value |-> IF r.raised THEN None
                                     ELSE child_get_string(r.response[1],
                                                           <<"version">>)])
    /\ UNCHANGED <<vfiler, stack, gens, ctl, nrec, srv>>

\* ------------------------------------------------------ export policies
\* vocabulary of the export policy calls (built with X in api.py).
ExportPolicyCreateQuery(policy_name) ==
    El("export-policy-create", "",
       <<Leaf("policy-name", policy_name), Leaf("return-record", "true")>>)

ExportPolicyDestroyQuery(policy_name) ==
    El("export-policy-destroy", "", <<Leaf("policy-name", policy_name)>>)

ExportRuleCreateQuery(policy_name, rule, index) ==
    El("export-rule-create", "",
       <<Leaf("policy-name", policy_name), Leaf("client-match", rule),
         Leaf("rule-index", Str(index)),
         El("ro-rule", "", <<Leaf("security-flavor", "sys")>>),
         El("rw-rule", "", <<Leaf("security-flavor", "sys")>>),
         Leaf("anonymous-user-id", "0"),
         El("protocol", "", <<Leaf("access-protocol", "nfs")>>),
         El("super-user-security", "", <<Leaf("security-flavor", "sys")>>)>>)

ExportRuleDestroyQuery(policy_name, index) ==
    El("export-rule-destroy", "",
       <<Leaf("policy-name", policy_name), Leaf("rule-index", Str(index))>>)

ExportRuleSetIndexQuery(policy_name, rule_index, i) ==
    El("export-rule-set-index", "",
       <<Leaf("policy-name", policy_name), Leaf("rule-index", Str(rule_index)),
         Leaf("new-rule-index", Str(i))>>)

ExportRuleGetIterQuery(policy_name) ==
    El("export-rule-get-iter", "",
       <<El("desired-attributes", "",
            <<El("export-rule-info", "",
                 <<Leaf("rule-index", ""), Leaf("client-match", "")>>)>>),
         El("query", "",
            <<El("export-rule-info", "",
                 <<Leaf("policy-name", policy_name)>>)>>)>>)

\* The rules of a policy on the server, a set of [index, rule] with
\* distinct indices, as a sequence by ascending index.
RECURSIVE ByIndex(_)
ByIndex(rules) ==
    IF rules = {} THEN <<>>
    ELSE LET lo == CHOOSE r \in rules : \A o \in rules : r.index <= o.index
         IN <<lo>> \o ByIndex(rules \ {lo})

Reverse(s) == [i \in 1..Len(s) |-> s[Len(s) + 1 - i]]

\* The server with one export policy, policy (None: it does not exist;
\* else the set of its rules), answering query q; fault: the server
\* refuses the call whatever it is; ord: the order in which it lists rules.
\* A rule created at an index takes that index and the rules at and after
\* it move down by one; the client-match "bad" is refused.  clash tells
\* that set-index named an index held by another rule.  The errno is 14
\* for a call refused, 13115 for an entry that does not exist and 13001
\* for one that exists already.
Serve(policy, q, fault, ord) ==
    LET no(errno)  == [policy |-> policy, clash |-> FALSE,
                       resp |-> Failed(<<"B", "a", "d">>, errno)]
        ok(p, kids) == [policy |-> p, clash |-> FALSE,
                        resp |-> Results("passed", <<>>, "", kids)]
        arg(name)  == FindText(q, <<name>>)[1]
        at(i)      == {r \in policy[1] : r.index = i}
    IN IF fault THEN no(14)
       ELSE IF q.name = "export-policy-create"
       THEN IF policy # None THEN no(13001)
            ELSE ok(Some({}),
                    <<El("export-policy-info", "",
                         <<Leaf("policy-name", arg("policy-name")),
                           Leaf("policy-id", "1")>>)>>)
       ELSE IF policy = None THEN no(13115)
       ELSE IF q.name = "export-policy-destroy" THEN ok(None, <<>>)
       ELSE IF q.name = "export-rule-create"
       THEN IF arg("client-match") = "bad" THEN no(14)
            ELSE LET i == IntOf(arg("rule-index"))
                 IN ok(Some({IF r.index >= i
                             THEN [r EXCEPT !.index = @ + 1] ELSE r :
                                r \in policy[1]}
                            \cup {[index |-> i, rule |-> arg("client-match")]}),
                       <<>>)
       ELSE IF q.name = "export-rule-destroy"
       THEN IF at(IntOf(arg("rule-index"))) = {} THEN no(13115)
            ELSE ok(Some(policy[1] \ at(IntOf(arg("rule-index")))), <<>>)
       ELSE IF q.name = "export-rule-set-index"
       THEN LET i == IntOf(arg("rule-index"))
                j == IntOf(arg("new-rule-index"))
            IN IF at(i) = {} THEN no(13115)
               ELSE IF i # j /\ at(j) # {}
               THEN [no(13001) EXCEPT !.clash = TRUE]
               ELSE ok(Some({IF r.index = i THEN [r EXCEPT !.index = j]
                             ELSE r : r \in policy[1]}), <<>>)
       ELSE LET listed == IF ord = "asc" THEN ByIndex(policy[1])
                          ELSE Reverse(ByIndex(policy[1]))
            IN ok(policy,
                  <<Leaf("num-records", Str(Len(listed))),
                    El("attributes-list", "",
                       [k \in 1..Len(listed) |->
                          El("export-rule-info", "",
                             <<Leaf("rule-index", Str(listed[k].index)),
                               Leaf("client-match", listed[k].rule)>>)])>>)

\* A run of an operation against the server: the policy on the server,
\* the calls made so far with their answers, which call the server will
\* refuse (0: none), the order of its listings, and whether a set-index
\* clashed.
Session(policy, failAt, ord) ==
    [policy |-> policy, log |-> <<>>, failAt |-> failAt, ord |-> ord,
     clash |-> FALSE]

\* The one element of a set of one: {e(x) : x \in {v}} is e with x = v.
The(S) == CHOOSE x \in S : TRUE

\* self.perform_call(api_call, self.ontap_api_url) in session st.
Call(st, api_call) ==
    The({[st |-> [st EXCEPT !.policy = a.policy,
                            !.log = Append(@, [query |-> api_call,
                                               answer |-> a.resp]),
                            !.clash = @ \/ a.clash],
          r |-> perform_call(api_call, vfiler, a.resp)] :
            a \in {Serve(st.policy, api_call, st.failAt = Len(st.log) + 1,
                         st.ord)}})

\* The outcome of an operation: the session after it and what it returned
\* or raised.
Done(st, result) == [st |-> st, result |-> result]

\* unpack_rule of export_rules_of.
unpack_rule(export_rule_info) ==
    <<child_get_int(export_rule_info, <<"rule-index">>),
      child_get_string(export_rule_info, <<"client-match">>)>>

\* A slip: the rules are returned in the order the server listed them.
Unsorted(results) == results

\* sorted(results, key=lambda x: x[0]): stable, ascending by index.
Sorted(results) ==
    LET n    == Len(results)
        keys == [i \in 1..n |-> results[i][1][1]]
        rank == [i \in 1..n |->
                   Cardinality({j \in 1..n :
                       keys[j] < keys[i] \/ (keys[j] = keys[i] /\ j <= i)})]
        perm == [k \in 1..n |-> CHOOSE i \in 1..n : rank[i] = k]
    IN [k \in 1..n |-> results[perm[k]]]

\* Server.export_rules_of: the listing (one page, the server of this
\* model announces no further one) through unpack_rule, sorted.
export_rules_of(st, policy_name) ==
    The({IF c.r.raised THEN Done(c.st, Raises(c.r.exc[1]))
         ELSE LET response == c.r.response[1]
                  records  == RecordsOf(response, "attributes-list")
                  num_records == IntOf(XPathTexts(response, "num-records")[1])
              IN IF ~CountMatches(num_records, records)
                 THEN Done(c.st, Raises(OtherError("AssertionError")))
                 ELSE Done(c.st, Returns(Sorted(MapSeq(records, unpack_rule)))) :
            c \in {Call(st, ExportRuleGetIterQuery(policy_name))}})

\* Server.add_export_rule.
add_export_rule(st, policy_name, rule, index) ==
    The({IF c.r.raised THEN Done(c.st, Raises(c.r.exc[1]))
         ELSE Done(c.st, Returns(None)) :
            c \in {Call(st, ExportRuleCreateQuery(policy_name, rule, index))}})

\* Server.delete_export_policy.
delete_export_policy(st, policy_name) ==
    The({IF c.r.raised THEN Done(c.st, Raises(c.r.exc[1]))
         ELSE Done(c.st, Returns(None)) :
            c \in {Call(st, ExportPolicyDestroyQuery(policy_name))}})

\* create_export_policy, "for index, rule in enumerate(rules, start=1)":
\* the rules from position index on, up to the first that raises.
RECURSIVE AddRules(_, _, _, _)
AddRules(st, policy_name, rules, index) ==
    IF index > Len(rules) THEN Done(st, Returns(None))
    ELSE The({IF a.result[1].kind = "raise" THEN a
              ELSE AddRules(a.st, policy_name, rules, index + 1) :
                 a \in {add_export_rule(st, policy_name, rules[index], index)}})

\* A slip: the policy is left behind when a rule is refused.
create_export_policy_no_rollback(st, policy_name, rules) ==
    The({IF c.r.raised THEN Done(c.st, Raises(c.r.exc[1]))
         ELSE LET name == child_get_string(c.r.response[1],
                                           <<"export-policy-info", "policy-name">>)
                  id   == child_get_string(c.r.response[1],
                                           <<"export-policy-info", "policy-id">>)
              IN The({IF a.result[1].kind = "raise" THEN a
                      ELSE Done(a.st, Returns(<<name, id>>)) :
                         a \in {IF rules = None THEN Done(c.st, Returns(None))
                                ELSE AddRules(c.st, policy_name, rules[1], 1)}}) :
            c \in {Call(st, ExportPolicyCreateQuery(policy_name))}})

\* Server.create_export_policy: the policy is created, then the rules one
\* by one with indices from 1; an APIError of a rule has the policy
\* deleted and is raised again, unless the deletion raises first.
create_export_policy(st, policy_name, rules) ==
    The({IF c.r.raised THEN Done(c.st, Raises(c.r.exc[1]))
         ELSE LET name == child_get_string(c.r.response[1],
                                           <<"export-policy-info", "policy-name">>)
                  id   == child_get_string(c.r.response[1],
                                           <<"export-policy-info", "policy-id">>)
              IN The({IF a.result[1].kind = "raise"
                      THEN IF a.result[1].exc[1].type # "APIError" THEN a
                           ELSE The({IF d.result[1].kind = "raise" THEN d
                                     ELSE Done(d.st, a.result) :
                                        d \in {delete_export_policy(a.st,
                                                                    policy_name)}})
                      ELSE Done(a.st, Returns(<<name, id>>)) :
                         a \in {IF rules = None THEN Done(c.st, Returns(None))
                                ELSE AddRules(c.st, policy_name, rules[1], 1)}}) :
            c \in {Call(st, ExportPolicyCreateQuery(policy_name))}})

\* remove_export_rule, "for i, index_rule in enumerate(remaining_rules,
\* start=1)": set-index for the rules from position i on, up to the first
\* call that raises.
RECURSIVE Renumber(_, _, _, _)
Renumber(st, policy_name, remaining_rules, i) ==
    IF i > Len(remaining_rules) THEN Done(st, Returns(None))
    ELSE The({IF c.r.raised THEN Done(c.st, Raises(c.r.exc[1]))
              ELSE Renumber(c.st, policy_name, remaining_rules, i + 1) :
                 c \in {Call(st, ExportRuleSetIndexQuery(
                                    policy_name, remaining_rules[i][1][1], i))}})

\* A slip: the rule is destroyed and the others keep their indices.
remove_export_rule_only(st, policy_name, index) ==
    The({IF c.r.raised THEN Done(c.st, Raises(c.r.exc[1]))
         ELSE Done(c.st, Returns(None)) :
            c \in {Call(st, ExportRuleDestroyQuery(policy_name, index))}})

\* Server.remove_export_rule: the rule is destroyed, the remaining rules
\* are listed and given the indices 1, 2, ... in the order of the list.
remove_export_rule(st, policy_name, index) ==
    The({IF c.r.raised THEN Done(c.st, Raises(c.r.exc[1]))
         ELSE The({IF l.result[1].kind = "raise" THEN l
                   ELSE Renumber(l.st, policy_name, l.result[1].value[1], 1) :
                      l \in {export_rules_of(c.st, policy_name)}}) :
            c \in {Call(st, ExportRuleDestroyQuery(policy_name, index))}})

\* A slip: a rule added without an index goes behind the first.
add_export_rule_default_second(st, policy_name, rule) ==
    add_export_rule(st, policy_name, rule, 2)

\* add_export_rule called without index: the default, index=1.
add_export_rule_default(st, policy_name, rule) ==
    add_export_rule(st, policy_name, rule, 1)

\* The values tried as rules (client-match), "bad" being one the server
\* refuses.
RuleValues == {"r1", "r2", "bad"}

\* The lists of rules given to create_export_policy: none, the empty
\* one, lists of good rules in both orders, and lists with a refused rule
\* first, in the middle and last.
RuleLists ==
    {None} \cup
    {Some(l) : l \in {s \in {<<>>, <<"r1">>, <<"bad">>, <<"r2", "r1">>,
                             <<"r1", "bad">>, <<"r1", "r2", "r1">>,
                             <<"r2", "r1", "bad">>, <<"r1", "bad", "r2">>,
                             <<"r2", "r2", "r1", "r1">>,
                             <<"r1", "r2", "r1", "bad">>} :
                         Len(s) <= MaxRules}}

\* The server's rules are few and their indices small enough for one more.
Room ==
    IF srv.policy = None THEN TRUE
    ELSE /\ Cardinality(srv.policy[1]) < MaxRules
         /\ \A r \in srv.policy[1] : r.index <= MaxRules

\* What an operation leaves: the policy on the server; heads, the rules
\* added without index since the policy was created empty (None when
\* something else has changed the policy); and the record of the operation.
After(op, args, d, heads) ==
    /\ srv' = [policy |-> d.st.policy, heads |-> heads]
    /\ last' = Some([op |-> op, args |-> args, before |-> srv.policy,
                     log |-> d.st.log, clash |-> d.st.clash,
                     result |-> d.result])
    /\ UNCHANGED <<vfiler, stack, gens, ctl, nrec>>

KeepHeads(d) == IF d.st.policy = srv.policy THEN srv.heads ELSE None

\* User code calls create_export_policy("p", rules).
CreateExportPolicy ==
    \E rules \in RuleLists, failAt \in 0..(MaxRules + 2) :
       \E d \in {create_export_policy(Session(srv.policy, failAt, "asc"),
                                      "p", rules)} :
          After("create_export_policy", rules, d,
                IF d.result[1].kind = "return" /\ d.st.policy = Some({})
                THEN Some(<<>>) ELSE KeepHeads(d))

\* User code calls add_export_rule("p", rule).
AddExportRuleNoIndex ==
    /\ Room
    /\ \E rule \in RuleValues, failAt \in 0..1 :
          \E d \in {add_export_rule_default(Session(srv.policy, failAt, "asc"),
                                            "p", rule)} :
             After("add_export_rule()", <<rule>>, d,
                   IF d.result[1].kind = "return" /\ srv.heads # None
                   THEN Some(Append(srv.heads[1], rule)) ELSE KeepHeads(d))

\* User code calls remove_export_rule("p", index).
RemoveExportRule ==
    \E index \in 1..(MaxRules + 1), failAt \in 0..(MaxRules + 1),
       ord \in {"asc", "desc"} :
       \E d \in {remove_export_rule(Session(srv.policy, failAt, ord), "p",
                                    index)} :
          After("remove_export_rule", <<index>>, d, KeepHeads(d))

\* User code calls delete_export_policy("p").
DeleteExportPolicy ==
    \E failAt \in 0..1 :
       \E d \in {delete_export_policy(Session(srv.policy, failAt, "asc"), "p")} :
          After("delete_export_policy", <<>>, d, KeepHeads(d))

\* User code calls export_rules_of("p").
ExportRulesOf ==
    \E failAt \in 0..1, ord \in {"asc", "desc"} :
       \E d \in {export_rules_of(Session(srv.policy, failAt, ord), "p")} :
          After("export_rules_of", <<>>, d, KeepHeads(d))

\* ---------------------------------------------------- volume operations
\* The queries of the operations on one volume.
VolumeAutosizeSetQuery(volume_name, enabled_str) ==
    with_children("volume-autosize-set",
                  <<value_element("volume", volume_name),
                    value_element("is-enabled", enabled_str)>>)

VolumeModifyIterQuery(volume_name, attributes) ==
    with_children("volume-modify-iter",
        <<with_children("attributes", attributes),
          with_children("query",
            <<with_children("volume-attributes",
                <<with_children("volume-id-attributes",
                    <<value_element("name", volume_name)>>)>>)>>)>>)

LockBreakIterQuery(volume_name, client_address) ==
    with_children("lock-break-iter",
        <<with_children("query",
            <<with_children("lock-info",
                <<value_element("volume", volume_name),
                  value_element("client-address", client_address)>>)>>)>>)

VolumeDestroyQuery(volume_name) ==
    with_children("volume-destroy", <<value_element("name", volume_name)>>)

\* The attributes the callers of volume_modify_iter pass.
StateAttributes(state) ==
    with_children("volume-attributes",
        <<with_children("volume-state-attributes",
            <<value_element("state", state)>>)>>)

ExportAttributes(policy_name) ==
    with_children("volume-attributes",
        <<with_children("volume-export-attributes",
            <<value_element("policy", policy_name)>>)>>)

SnapshotReserveAttributes(reserve_percent) ==
    with_children("volume-attributes",
        <<with_children("volume-space-attributes",
            <<value_element("percentage-snapshot-reserve",
                            Str(reserve_percent))>>)>>)

CachingAttributes(policy_name) ==
    with_children("volume-attributes",
        <<with_children("volume-hybrid-cache-attributes",
            <<value_element("caching-policy", policy_name)>>)>>)

\* One entry of a failure-list; its message is kept as a sequence of
\* characters, like the reason of a failed answer.
FailureEntry(code, message) ==
    El("volume-modify-iter-info", "",
       <<Leaf("error-code", Str(code)), Leaf("error-message", message)>>)

\* The failure-lists an answer may hold: none, an empty one, one entry,
\* two entries.
FailureLists ==
    {<<>>, <<El("failure-list", "", <<>>)>>}
    \cup {<<El("failure-list", "", <<FailureEntry(c, m)>>)>> :
            c \in Errnos, m \in Reasons}
    \cup {<<El("failure-list", "",
               <<FailureEntry(c, m), FailureEntry(13115, <<"N", "o">>)>>)>> :
            c \in Errnos, m \in Reasons}

\* A counter of an answer: absent, or present with one of the texts.
Counter(name, texts) == {<<>>} \cup {<<Leaf(name, t)>> : t \in texts}

\* The answers of the server to an operation on the volumes a query
\* matches: passed with its counters and failure-list, or failed.
BatchAnswers ==
    {Results("passed", <<>>, "", succ \o fail \o fl) :
        succ \in Counter("num-succeeded", {"", "0", "1", "2"}),
        fail \in Counter("num-failed", {"0", "1"}),
        fl \in FailureLists}
    \cup Failures

\* The answers to a call that reports nothing but its status.
PlainAnswers == {Results("passed", <<>>, "", <<>>)} \cup Failures

\* What an operation did: the requests it sent and the exception it
\* raised, None when it returned.
Outcome(sent, exc) == [sent |-> sent, raised |-> exc # None, exc |-> exc]

\* str.format of an optional integer.
Format(o) == IF o = None THEN "None" ELSE Str(o[1])

\* extract_failures: code and message of every entry of the failure-lists.
extract_failures(result) ==
    LET errors == XPathChildren(result, "failure-list")
    IN [i \in 1..Len(errors) |->
          <<IntOf(FindText(errors[i], <<"error-code">>)[1]),
            FindText(errors[i], <<"error-message">>)[1]>>]

\* A slip: the counters of the answer are not looked at.
raise_on_non_single_answer_uncounted(result) ==
    LET failures == extract_failures(result)
    IN IF failures # <<>>
       THEN Some(APIError(failures[1][2], Some(failures[1][1]), None))
       ELSE None

\* raise_on_non_single_answer: the APIError it raises, None when it
\* returns.  The error for the counters has the default errno, the text
\* "{no error #}", which stands as None here.
raise_on_non_single_answer(result) ==
    LET num_successes == child_get_int(result, <<"num-succeeded">>)
        num_failures == child_get_int(result, <<"num-failed">>)
        failures == extract_failures(result)
    IN IF failures # <<>>
       THEN Some(APIError(failures[1][2], Some(failures[1][1]), None))
       ELSE IF ~(num_successes = Some(1) /\ num_failures = Some(0))
       THEN Some(APIError(<<"Unexpected answer: got ", Format(num_successes),
                            " results, ", Format(num_failures),
                            " failures!">>, None, None))
       ELSE None

\* volume_modify_iter when the server answers resp.
volume_modify_iter(volume_name, attributes, resp) ==
    LET api_call == VolumeModifyIterQuery(volume_name, attributes)
        r == perform_call(api_call, vfiler, resp)
    IN IF r.raised THEN Outcome(<<r.request>>, r.exc)
       ELSE Outcome(<<r.request>>, raise_on_non_single_answer(r.response[1]))

take_volume_offline(volume_name, resp) ==
    volume_modify_iter(volume_name, <<StateAttributes("offline")>>, resp)

set_volume_export_policy(volume_name, policy_name, resp) ==
    volume_modify_iter(volume_name, <<ExportAttributes(policy_name)>>, resp)

set_volume_snapshot_reserve(volume_name, reserve_percent, resp) ==
    volume_modify_iter(volume_name,
                       <<SnapshotReserveAttributes(reserve_percent)>>, resp)

set_volume_caching_policy(volume_name, policy_name, resp) ==
    volume_modify_iter(volume_name, <<CachingAttributes(policy_name)>>, resp)

break_lock(volume_name, client_address, resp) ==
    LET api_call == LockBreakIterQuery(volume_name, client_address)
        r == perform_call(api_call, vfiler, resp)
    IN IF r.raised THEN Outcome(<<r.request>>, r.exc)
       ELSE Outcome(<<r.request>>, raise_on_non_single_answer(r.response[1]))

\* destroy_volume when the server answers resp.
destroy_volume(volume_name, resp) ==
    LET r == perform_call(VolumeDestroyQuery(volume_name), vfiler, resp)
        failures == IF r.raised THEN <<>> ELSE extract_failures(r.response[1])
    IN IF r.raised THEN Outcome(<<r.request>>, r.exc)
       ELSE IF failures # <<>>
       THEN Outcome(<<r.request>>,
                    Some(APIError(failures[1][2], Some(failures[1][1]), None)))
       ELSE Outcome(<<r.request>>, None)

\* Python truthiness of an optional integer: None and 0 are falsy.
TruthyInt(o) == o # None /\ o[1] # 0

\* A slip: the call is sent whatever max_size_bytes is.
set_volume_autosize_unvalidated(volume_name, autosize_enabled, max_size_bytes, resp) ==
    LET enabled_str == IF autosize_enabled THEN "true" ELSE "false"
        call0 == VolumeAutosizeSetQuery(volume_name, enabled_str)
        api_call ==
            IF autosize_enabled
            THEN ElAppend(ElAppend(call0, value_element("maximum-size",
                                                        Format(max_size_bytes))),
                          value_element("mode", "grow"))
            ELSE call0
        r == perform_call(api_call, vfiler, resp)
    IN Outcome(<<r.request>>, r.exc)

\* set_volume_autosize when the server would answer resp.
set_volume_autosize(volume_name, autosize_enabled, max_size_bytes, resp) ==
    LET enabled_str == IF autosize_enabled THEN "true" ELSE "false"
        call0 == VolumeAutosizeSetQuery(volume_name, enabled_str)
        api_call ==
            IF autosize_enabled
            THEN ElAppend(ElAppend(call0, value_element("maximum-size",
                                                        Format(max_size_bytes))),
                          value_element("mode", "grow"))
            ELSE call0
        r == perform_call(api_call, vfiler, resp)
    IN IF autosize_enabled /\ ~TruthyInt(max_size_bytes)
       THEN Outcome(<<>>, Some(OtherError("TypeError")))
       ELSE Outcome(<<r.request>>, r.exc)

\* The arguments the operations are called with.
VolumeNames == {"vol1"}
PolicyNames == {"default", "p1"}
ReservePercents == {0, 5}
ClientAddresses == {"10.0.0.1"}
MaxSizes == {None, Some(0), Some(1024)}

\* What an operation on a volume leaves: its record.  The operations read
\* nothing an earlier one left, so each is called on the server as
\* constructed.
Finished(op, args, answer, out) ==
    /\ last = None
    /\ last' = Some([op |-> op, args |-> args, answer |-> answer,
                     sent |-> out.sent, raised |-> out.raised,
                     exc |-> out.exc])
    /\ UNCHANGED <<vfiler, stack, gens, ctl, nrec, srv>>

SetVolumeAutosize ==
    \E vn \in VolumeNames, en \in BOOLEAN, mx \in MaxSizes,
       resp \in PlainAnswers :
        Finished("set_volume_autosize",
                 [volume_name |-> vn, autosize_enabled |-> en,
                  max_size_bytes |-> mx],
                 resp, set_volume_autosize(vn, en, mx, resp))

TakeVolumeOffline ==
    \E vn \in VolumeNames, resp \in BatchAnswers :
        Finished("take_volume_offline", [volume_name |-> vn], resp,
                 take_volume_offline(vn, resp))

SetVolumeExportPolicy ==
    \E vn \in VolumeNames, pn \in PolicyNames, resp \in BatchAnswers :
        Finished("set_volume_export_policy",
                 [volume_name |-> vn, policy_name |-> pn], resp,
                 set_volume_export_policy(vn, pn, resp))

SetVolumeSnapshotReserve ==
    \E vn \in VolumeNames, rp \in ReservePercents, resp \in BatchAnswers :
        Finished("set_volume_snapshot_reserve",
                 [volume_name |-> vn, reserve_percent |-> rp], resp,
                 set_volume_snapshot_reserve(vn, rp, resp))

SetVolumeCachingPolicy ==
    \E vn \in VolumeNames, pn \in PolicyNames, resp \in BatchAnswers :
        Finished("set_volume_caching_policy",
                 [volume_name |-> vn, policy_name |-> pn], resp,
                 set_volume_caching_policy(vn, pn, resp))

BreakLock ==
    \E vn \in VolumeNames, ca \in ClientAddresses, resp \in BatchAnswers :
        Finished("break_lock",
                 [volume_name |-> vn, client_address |-> ca], resp,
                 break_lock(vn, ca, resp))

DestroyVolume ==
    \E vn \in VolumeNames, resp \in BatchAnswers :
        Finished("destroy_volume", [volume_name |-> vn], resp,
                 destroy_volume(vn, resp))

\* ----------------------------------------------------- record constructors
LOCAL_TIMEZONE == "Europe/Zurich"

\* datetime.fromtimestamp(timestamp, pytz.timezone(LOCAL_TIMEZONE)).
fromtimestamp(timestamp) == [epoch |-> timestamp, tz |-> LOCAL_TIMEZONE]

\* _child_get_strings: m.text of every match of a path of two child names,
\* None for an element without text.
child_get_strings(parent, first, second) ==
    LET matches == SelectSeq(XPathChildren(parent, first),
                             LAMBDA m : m.name = second)
    IN [i \in 1..Len(matches) |->
          IF matches[i].text = "" THEN None ELSE Some(matches[i].text)]

\* unpack_lock of locks_on.
unpack_lock(lock_info) ==
    [volume |-> child_get_string(lock_info, <<"volume">>),
     state |-> child_get_string(lock_info, <<"lock-state">>),
     client_address |-> child_get_string(lock_info, <<"client-address">>)]

\* unpack_snapshot of snapshots_of.
unpack_snapshot(snapshot_info) ==
    [name |-> child_get_string(snapshot_info, <<"name">>),
     creation_time |->
         fromtimestamp(child_get_int(snapshot_info, <<"access-time">>)[1]),
     size_kbytes |-> child_get_int(snapshot_info, <<"total">>)]

\* unpack_cluster_aggregate and unpack_vserver_aggregate of aggregates.
unpack_cluster_aggregate(aggregate_info) ==
    [name |-> child_get_string(aggregate_info, <<"aggregate-name">>),
     node_names |-> Some(child_get_strings(aggregate_info, "nodes", "node-name")),
     bytes_used |->
         Some(IntOf(child_get_string(aggregate_info,
                        <<"aggr-space-attributes", "size-used">>)[1])),
     bytes_available |->
         Some(IntOf(child_get_string(aggregate_info,
                        <<"aggr-space-attributes", "size-available">>)[1]))]

unpack_vserver_aggregate(show_aggregates) ==
    [name |-> child_get_string(show_aggregates, <<"aggregate-name">>),
     node_names |-> None,
     bytes_used |-> None,
     bytes_available |-> child_get_int(show_aggregates, <<"available-size">>)]

\* unpack_vserver of vservers.
unpack_vserver(vserver_info) ==
    [name |-> child_get_string(vserver_info, <<"vserver-name">>),
     state |-> child_get_string(vserver_info, <<"state">>),
     uuid |-> child_get_string(vserver_info, <<"uuid">>),
     aggregate_names |-> child_get_strings(vserver_info, "aggr-list", "aggr-name")]

\* Raw records of the other tables of the server.
RawLock(i) ==
    El("lock-info", "",
       <<Leaf("volume", "v" \o Str(i)), Leaf("lock-state", "granted"),
         Leaf("client-address", "10.0.0." \o Str(i))>>)

RawSnapshot(i) ==
    El("snapshot-info", "",
       <<Leaf("access-time", Str(10 + i)), Leaf("name", "s" \o Str(i)),
         Leaf("total", Str(i))>>)

RawClusterAggregate(i) ==
    El("aggr-attributes", "",
       <<El("aggr-space-attributes", "",
            <<Leaf("size-used", Str(i)), Leaf("size-available", Str(i + 1))>>),
         Leaf("aggregate-name", "aggr" \o Str(i)),
         El("nodes", "", [k \in 1..i |-> Leaf("node-name", "n" \o Str(k))])>>)

RawVserverAggregate(i) ==
    El("show-aggregates", "",
       <<Leaf("aggregate-name", "aggr" \o Str(i)),
         Leaf("available-size", Str(i))>>)

RawVserver(i) ==
    El("vserver-info", "",
       <<Leaf("vserver-name", "vs" \o Str(i)), Leaf("state", "running"),
         Leaf("uuid", "u" \o Str(i)),
         El("aggr-list", "", [k \in 1..i |-> Leaf("aggr-name", "aggr" \o Str(k))])>>)

\* The constructors records go through, and for each the raw records it is
\* given: every record of its table, whole or without one of the children
\* the constructor can do without (it needs the numbers in the first and
\* the last child of an event and in the first child of a snapshot and of
\* a cluster aggregate).
Constructors ==
    {"Event", "Volume", "Lock", "Snapshot", "ClusterAggregate",
     "VserverAggregate", "Vserver"}

Without(raw, from, to) == {raw} \cup {ElRemoveAt(raw, k) : k \in from..to}

RawRecords(constructor) ==
    UNION {CASE constructor = "Event" -> Without(RawEvent(i), 2, 4)
             [] constructor = "Volume" -> Without(RawVolume(i), 1, 3)
             [] constructor = "Lock" -> Without(RawLock(i), 1, 3)
             [] constructor = "Snapshot" -> Without(RawSnapshot(i), 2, 3)
             [] constructor = "ClusterAggregate" ->
                  Without(RawClusterAggregate(i), 2, 3)
             [] constructor = "VserverAggregate" ->
                  Without(RawVserverAggregate(i), 1, 2)
             [] OTHER -> Without(RawVserver(i), 1, 4) : i \in 1..MaxRecords}

\* The compression flags make_volume passes to Volume; the other
\* constructors take the record alone.
Flags(constructor) ==
    IF constructor = "Volume" THEN BOOLEAN \X BOOLEAN ELSE {<<FALSE, FALSE>>}

\* The value a constructor makes of a raw record.
Construct(constructor, raw_object, flags) ==
    CASE constructor = "Event" -> Event(raw_object)
      [] constructor = "Volume" -> Volume(raw_object, flags[1], flags[2])
      [] constructor = "Lock" -> unpack_lock(raw_object)
      [] constructor = "Snapshot" -> unpack_snapshot(raw_object)
      [] constructor = "ClusterAggregate" -> unpack_cluster_aggregate(raw_object)
      [] constructor = "VserverAggregate" -> unpack_vserver_aggregate(raw_object)
      [] OTHER -> unpack_vserver(raw_object)

\* A slip: a child that was read is taken out of the raw record.
ProjectionDetaching(constructor, raw_object, flags) ==
    [value |-> Construct(constructor, raw_object, flags),
     raw |-> ElRemoveAt(raw_object, 2)]

\* One projection: the value made, and the raw record after it.  The
\* constructors read the record with findtext, findall and xpath, none of
\* which changes it.
Projection(constructor, raw_object, flags) ==
    [value |-> Construct(constructor, raw_object, flags), raw |-> raw_object]

\* A raw record goes through a constructor.
Project ==
    /\ last = None
    /\ \E c \in Constructors :
         \E raw_object \in RawRecords(c), flags \in Flags(c) :
            LET p == Projection(c, raw_object, flags)
            IN last' = Some([constructor |-> c, flags |-> flags,
                             given |-> raw_object, raw |-> p.raw,
                             values |-> <<p.value>>])
    /\ UNCHANGED <<vfiler, stack, gens, ctl, nrec, srv>>

\* The same raw record, as the first projection left it, goes through the
\* same constructor once more.
ProjectAgain ==
    /\ last # None /\ Len(last[1].values) = 1
    /\ LET p == Projection(last[1].constructor, last[1].raw, last[1].flags)
       IN last' = Some([last[1] EXCEPT !.raw = p.raw,
                                       !.values = Append(@, p.value)])
    /\ UNCHANGED <<vfiler, stack, gens, ctl, nrec, srv>>

\* -------------------------------------------------- events.filter queries
\* The keyword arguments events.filter is called with: every filter given
\* or omitted, and a timeout omitted, zero or positive.
EventFilterKwargs ==
    [severities : {None, Some(<<"warning", "information">>)},
     states : {None, Some(<<"new">>)},
     greater_than_id : {None, Some(1)},
     time_range : {None, Some(<<5, 9>>)},
     max_records : {None, Some(2)},
     timeout : {None, Some(0), Some(5)},
     source : {None, Some("cluster1")}]

\* events.filter(**kw) up to the call of _get_paginated: the query built.
BuildEventFilter ==
    /\ last = None
    /\ \E kw \in EventFilterKwargs :
          last' = Some([op |-> "events.filter", kw |-> kw,
                        api_call |-> EventFilterQuery(kw)])
    /\ UNCHANGED <<vfiler, stack, gens, ctl, nrec, srv>>

\* ------------------------------------------- volume creation, compression
ERR_ALREADY_ENABLED == 13001

\* The queries of create_volume, set_compression and restrict_volume.
VolumeCreateQuery(name, size_bytes, aggregate_name, junction_path, export_policy_name, percentage_snapshot_reserve, caching_policy) ==
    with_children("volume-create",
        <<value_element("volume", name),
          value_element("containing-aggr-name", aggregate_name),
          value_element("size", Str(size_bytes)),
          value_element("junction-path", junction_path),
          value_element("percentage-snapshot-reserve",
                        Str(percentage_snapshot_reserve))>>
        \o (IF Truthy(export_policy_name)
            THEN <<value_element("export-policy", export_policy_name[1])>>
            ELSE <<>>)
        \o (IF Truthy(caching_policy)
            THEN <<value_element("caching-policy", caching_policy[1])>>
            ELSE <<>>))

\* "/vol/{}".format(volume_name).
SisPath(volume_name) == "/vol/" \o volume_name

\* str(flag).lower() of a bool.
LowerStr(flag) == IF flag THEN "true" ELSE "false"

SisEnableQuery(path) ==
    with_children("sis-enable", <<value_element("path", path)>>)

SisSetConfigQuery(enabled, inline, path) ==
    with_children("sis-set-config",
        <<value_element("enable-compression", LowerStr(enabled)),
          value_element("enable-inline-compression", LowerStr(inline)),
          value_element("path", path)>>)

VolumeUnmountQuery(volume_name) ==
    with_children("volume-unmount", <<value_element("volume-name", volume_name)>>)

VolumeRestrictQuery(volume_name) ==
    with_children("volume-restrict", <<value_element("name", volume_name)>>)

\* The answers to one call of these operations: passed, failed with every
\* reason and error number, or an HTTP error.
CallAnswers ==
    PlainAnswers
    \cup {[Results("passed", <<>>, "", <<>>) EXCEPT !.status_code = 503]}

\* The answer of a server that has SIS on for the volume to sis-enable.
AlreadyEnabled ==
    Failed(<<"S", "I", "S", " ", "o", "n", ".">>, ERR_ALREADY_ENABLED)

\* A slip: every APIError of sis-enable leaves set_compression.
set_compression_intolerant(volume_name, enabled, inline, answers) ==
    LET path == SisPath(volume_name)
        r1 == perform_call(SisEnableQuery(path), vfiler, answers[1])
        r2 == perform_call(SisSetConfigQuery(enabled, inline, path), vfiler,
                           answers[2])
    IN IF ~enabled /\ inline
       THEN Outcome(<<>>, Some(OtherError("ValueError")))
       ELSE IF r1.raised THEN Outcome(<<r1.request>>, r1.exc)
       ELSE Outcome(<<r1.request, r2.request>>, r2.exc)

\* A slip: the flags are not looked at before sending.
set_compression_unvalidated(volume_name, enabled, inline, answers) ==
    LET path == SisPath(volume_name)
        r1 == perform_call(SisEnableQuery(path), vfiler, answers[1])
        r2 == perform_call(SisSetConfigQuery(enabled, inline, path), vfiler,
                           answers[2])
    IN IF r1.raised /\ ~(r1.exc[1].type = "APIError"
                         /\ r1.exc[1].errno = Some(ERR_ALREADY_ENABLED))
       THEN Outcome(<<r1.request>>, r1.exc)
       ELSE Outcome(<<r1.request, r2.request>>, r2.exc)

\* set_compression when the server answers its calls with answers, in
\* order.  Only an APIError is caught around sis-enable, and only the one
\* with ERR_ALREADY_ENABLED is dropped.
set_compression(volume_name, enabled, inline, answers) ==
    LET path == SisPath(volume_name)
        r1 == perform_call(SisEnableQuery(path), vfiler, answers[1])
        r2 == perform_call(SisSetConfigQuery(enabled, inline, path), vfiler,
                           answers[2])
    IN IF ~enabled /\ inline
       THEN Outcome(<<>>, Some(OtherError("ValueError")))
       ELSE IF r1.raised /\ ~(r1.exc[1].type = "APIError"
                              /\ r1.exc[1].errno = Some(ERR_ALREADY_ENABLED))
       THEN Outcome(<<r1.request>>, r1.exc)
       ELSE Outcome(<<r1.request, r2.request>>, r2.exc)

\* A slip: the volume is created and compression left alone.
create_volume_no_compression(name, size_bytes, aggregate_name, junction_path, export_policy_name, percentage_snapshot_reserve, compression, inline_compression, caching_policy, answers) ==
    LET r == perform_call(VolumeCreateQuery(name, size_bytes, aggregate_name,
                              junction_path, export_policy_name,
                              percentage_snapshot_reserve, caching_policy),
                          vfiler, answers[1])
    IN Outcome(<<r.request>>, r.exc)

\* A slip: the compression flags are checked before the volume is made.
create_volume_validating_first(name, size_bytes, aggregate_name, junction_path, export_policy_name, percentage_snapshot_reserve, compression, inline_compression, caching_policy, answers) ==
    LET r == perform_call(VolumeCreateQuery(name, size_bytes, aggregate_name,
                              junction_path, export_policy_name,
                              percentage_snapshot_reserve, caching_policy),
                          vfiler, answers[1])
        s == set_compression(name, compression, inline_compression,
                             Tail(answers))
    IN IF ~compression /\ inline_compression
       THEN Outcome(<<>>, Some(OtherError("ValueError")))
       ELSE IF r.raised THEN Outcome(<<r.request>>, r.exc)
       ELSE Outcome(<<r.request>> \o s.sent, s.exc)

\* create_volume when the server answers its calls with answers, in order.
create_volume(name, size_bytes, aggregate_name, junction_path, export_policy_name, percentage_snapshot_reserve, compression, inline_compression, caching_policy, answers) ==
    LET r == perform_call(VolumeCreateQuery(name, size_bytes, aggregate_name,
                              junction_path, export_policy_name,
                              percentage_snapshot_reserve, caching_policy),
                          vfiler, answers[1])
        s == set_compression(name, compression, inline_compression,
                             Tail(answers))
    IN IF r.raised THEN Outcome(<<r.request>>, r.exc)
       ELSE Outcome(<<r.request>> \o s.sent, s.exc)

\* unmount_volume when the server answers resp.
unmount_volume(volume_name, resp) ==
    LET r == perform_call(VolumeUnmountQuery(volume_name), vfiler, resp)
    IN Outcome(<<r.request>>, r.exc)

\* A slip: volume-restrict is sent whatever became of the unmount.
restrict_volume_regardless(volume_name, answers) ==
    LET u == unmount_volume(volume_name, answers[1])
        r == perform_call(VolumeRestrictQuery(volume_name), vfiler, answers[2])
    IN Outcome(u.sent \o <<r.request>>, IF u.raised THEN u.exc ELSE r.exc)

\* restrict_volume when the server answers its calls with answers.
restrict_volume(volume_name, answers) ==
    LET u == unmount_volume(volume_name, answers[1])
        r == perform_call(VolumeRestrictQuery(volume_name), vfiler, answers[2])
    IN IF u.raised THEN u
       ELSE Outcome(u.sent \o <<r.request>>, r.exc)

\* The volumes a run of calls has made on the server: those of the
\* volume-create requests it answered with passed.
CreatedBy(sent, answers) ==
    {FindText(sent[i].kids[1], <<"volume">>)[1] :
        i \in {j \in 1..Len(sent) :
                 /\ sent[j].kids[1].name = "volume-create"
                 /\ answers[j].attrib.status = "passed"
                 /\ answers[j].status_code = 200}}

\* What one of these operations leaves: its record, with the volumes it
\* made on the server; round counts the calls of the operation in a row.
Ran(op, args, answers, out, round) ==
    /\ last' = Some([op |-> op, args |-> args, answers |-> answers,
                     sent |-> out.sent, raised |-> out.raised,
                     exc |-> out.exc, round |-> round,
                     created |-> CreatedBy(out.sent, answers)])
    /\ UNCHANGED <<vfiler, stack, gens, ctl, nrec, srv>>

CreateVolume ==
    /\ last = None
    /\ \E vn \in VolumeNames, ep \in {None, Some("default")},
          cp \in {None, Some("auto")}, c \in BOOLEAN, ic \in BOOLEAN,
          answers \in [1..3 -> CallAnswers] :
         Ran("create_volume",
             [name |-> vn, export_policy_name |-> ep, caching_policy |-> cp,
              compression |-> c, inline_compression |-> ic],
             answers,
             create_volume(vn, 1024, "aggr1", "/" \o vn, ep, 0, c, ic, cp,
                           answers),
             1)

SetCompression ==
    /\ last = None
    /\ \E vn \in VolumeNames, en \in BOOLEAN, inl \in BOOLEAN,
          answers \in [1..2 -> CallAnswers] :
         Ran("set_compression",
             [volume_name |-> vn, enabled |-> en, inline |-> inl],
             answers, set_compression(vn, en, inl, answers), 1)

\* set_compression called again with the same arguments after it has
\* returned: SIS is on for the volume by now, and nothing else fails.
SetCompressionAgain ==
    /\ last # None /\ last[1].op = "set_compression"
    /\ last[1].round = 1 /\ ~last[1].raised
    /\ LET answers == <<AlreadyEnabled, Results("passed", <<>>, "", <<>>)>>
           a == last[1].args
       IN Ran("set_compression", a, answers,
              set_compression(a.volume_name, a.enabled, a.inline, answers), 2)

RestrictVolume ==
    /\ last = None
    /\ \E vn \in VolumeNames, answers \in [1..2 -> CallAnswers] :
         Ran("restrict_volume", [volume_name |-> vn], answers,
             restrict_volume(vn, answers), 1)

\* ------------------------------------------------------- specifications
\* One paginated query at a time, with every filter, page size and answer
\* of the server; a finished listing may be read again in pages.
Next ==
    \/ EventsFilter(1, EventFilterInputs)
    \/ VolumesFilter(1, PageSizes)
    \/ SingleById(1)
    \/ VolumesSingle(1)
    \/ Repaginate
    \/ \E g \in GenIds : Pull(g)
    \/ \E g \in Slots : Fetch(g, FALSE)
    \/ \E g \in Slots : YieldRecord(g)
    \/ \E g \in Slots : EndOfPage(g)

Spec == Init /\ [][Next]_vars

\* Two volume listings in pages of one record, pulled in any interleaving
\* from an honest server.
NextPair ==
    \/ \E g \in GenIds : VolumesFilter(g, {Some(1)})
    \/ \E g \in GenIds : Pull(g)
    \/ \E g \in Slots : Fetch(g, TRUE)
    \/ \E g \in Slots : YieldRecord(g)
    \/ \E g \in Slots : EndOfPage(g)

SpecPair == Init /\ [][NextPair]_vars

\* One-shot calls inside and outside with_vserver blocks.
NextCall ==
    \/ \E v \in Vservers : WithVserver(v)
    \/ ExitVserver
    \/ ExitVserverRaise
    \/ OcumVersion

SpecCall == Init /\ [][NextCall]_vars

\* The operations on export policies, one after the other, against a
\* server that keeps the policy and may refuse any one call.
NextOps ==
    \/ CreateExportPolicy
    \/ AddExportRuleNoIndex
    \/ RemoveExportRule
    \/ DeleteExportPolicy
    \/ ExportRulesOf

InitOps == Init /\ vfiler = Some("") /\ nrec = 0

SpecOps == InitOps /\ [][NextOps]_vars

\* The operations on one volume, each against every answer of the server.
NextVolumeOps ==
    \/ SetVolumeAutosize
    \/ TakeVolumeOffline
    \/ SetVolumeExportPolicy
    \/ SetVolumeSnapshotReserve
    \/ SetVolumeCachingPolicy
    \/ BreakLock
    \/ DestroyVolume

SpecVolumeOps == InitOps /\ [][NextVolumeOps]_vars

\* Raw records through their constructors, twice each.
NextDecode == Project \/ ProjectAgain

SpecDecode == InitOps /\ [][NextDecode]_vars

\* The queries events.filter builds, for every combination of its filters.
NextFilter == BuildEventFilter

SpecFilter == InitOps /\ [][NextFilter]_vars

\* Volume creation, compression and restriction, each against every run
\* of answers of the server.
NextCreate ==
    \/ CreateVolume
    \/ SetCompression
    \/ SetCompressionAgain
    \/ RestrictVolume

SpecCreate == InitOps /\ [][NextCreate]_vars

\* One event listing in pages of one record, made and pulled inside and
\* outside with_vserver blocks, against an honest server.
NextScoped ==
    \/ \E v \in Vservers : WithVserver(v)
    \/ ExitVserver
    \/ EventsFilter(1, {[NoKwargs EXCEPT !.max_records = Some(1)]})
    \/ Pull(1)
    \/ Fetch(1, TRUE)
    \/ YieldRecord(1)
    \/ EndOfPage(1)

SpecScoped == Init /\ [][NextScoped]_vars

\* ---------------------------------------------------------------- properties
\* The texts of the tag elements of a query, in order.
TagsIn(api_call) ==
    [i \in 1..Len(SelectSeq(api_call.kids, LAMBDA k : k.name = "tag")) |->
        SelectSeq(api_call.kids, LAMBDA k : k.name = "tag")[i].text]

\* C1: a listing read again with max_records = k, from a server that cuts
\* the result into consecutive pages of at most k records, yields the same
\* values in the same order as the listing read without max_records.
PaginationEquivalence ==
    (gens[2].pc = "done" /\ gens[2].honest) => gens[2].out = gens[1].out

\* C1 witness: a paginated listing of several records over several pages
\* has ended.
PaginationEquivalenceWitness ==
    /\ gens[2].pc = "done" /\ gens[2].honest
    /\ Len(gens[2].sent) >= 2 /\ Len(gens[2].out) >= 2
    /\ Len(gens[1].sent) = 1

\* The query of the i-th request generator gn sent.
QuerySent(gn, i) == gn.sent[i].request.kids[1]

\* C2: the request for page n+1 holds exactly one tag element, whose text
\* is the next-tag of the answer to page n, and no query ever holds more
\* than one tag element.
TagThreading ==
    \A g \in Slots :
        /\ Len(TagsIn(gens[g].api_call)) <= 1
        /\ \A i \in 1..Len(gens[g].sent) : Len(TagsIn(QuerySent(gens[g], i))) <= 1
        /\ \A i \in 1..(Len(gens[g].sent) - 1) :
              /\ XPathTexts(gens[g].answers[i], "next-tag") # <<>>
              /\ TagsIn(QuerySent(gens[g], i + 1))
                    = <<XPathTexts(gens[g].answers[i], "next-tag")[1]>>

\* C2 witness: a third page was asked for, so a tag has replaced a tag.
TagThreadingWitness ==
    \E g \in Slots :
        /\ Len(gens[g].sent) >= 3
        /\ TagsIn(QuerySent(gens[g], 2)) # TagsIn(QuerySent(gens[g], 3))

\* A query without its tag elements.
WithoutTags(api_call) ==
    [api_call EXCEPT !.kids = SelectSeq(@, LAMBDA k : k.name # "tag")]

\* C3: the request of every page holds every element of the query as it
\* was built, children included, unchanged and in the same order; only tag
\* elements come and go.
QueryPreserved ==
    \A g \in Slots : \A i \in 1..Len(gens[g].sent) :
        WithoutTags(QuerySent(gens[g], i)) = gens[g].initial[1]

\* A next-tag element that is present and empty.
HasEmptyNextTag(response) ==
    \E i \in ChildIdx(response, "next-tag") : response.kids[i].text = ""

\* C4: after a page whose answer holds an empty next-tag element, the
\* generator goes on to a further request, which carries an empty tag.
EmptyTagMeansMorePages ==
    [][\A g \in Slots :
          (/\ gens[g].pc = "loop"
           /\ gens[g].idx = Len(Records(gens[g]))
           /\ HasEmptyNextTag(gens[g].response[1])
           /\ gens'[g] # gens[g])
          => (gens'[g].pc = "fetch" /\ TagsIn(gens'[g].api_call) = <<"">>)]_vars

\* C5: a generator ends normally only after an answer without a next-tag
\* element, with every record of that page yielded and no request sent
\* after it.
EndsOnlyWithoutTag ==
    \A g \in Slots :
        gens[g].pc = "done" =>
            /\ gens[g].answers # <<>>
            /\ ChildIdx(gens[g].answers[Len(gens[g].answers)], "next-tag") = {}
            /\ gens[g].idx = Len(Records(gens[g]))
            /\ Len(gens[g].sent) = Len(gens[g].answers)

\* How many records the successful answers before the i-th one held.
RECURSIVE RecordsBefore(_, _)
RecordsBefore(gn, i) ==
    IF i <= 1 THEN 0
    ELSE RecordsBefore(gn, i - 1)
         + Len(XPathChildren(gn.answers[i - 1], gn.container_tag[1]))

Miscount(gn, i) ==
    /\ gn.answers[i].attrib.status = "passed"
    /\ IntOf(XPathTexts(gn.answers[i], "num-records")[1])
          # Len(XPathChildren(gn.answers[i], gn.container_tag[1]))

\* C6: an answer whose num-records is not the number of its records ends
\* the generator with an AssertionError before any record of that page is
\* yielded: what was yielded is what the pages before it held.
RecordCountChecked ==
    \A g \in Slots : \A i \in 1..Len(gens[g].answers) :
        Miscount(gens[g], i) =>
            /\ i = Len(gens[g].answers)
            /\ gens[g].pc = "raised"
            /\ gens[g].exc = Some(OtherError("AssertionError"))
            /\ Len(gens[g].out) = RecordsBefore(gens[g], i)

\* C6 witness: the second page of a listing was miscounted.
RecordCountCheckedWitness ==
    \E g \in GenIds :
        /\ Len(gens[g].answers) = 2 /\ Miscount(gens[g], 2)
        /\ gens[g].out # <<>>

\* msg is reason without the dots and blanks at its end.
IsRStripped(msg, reason) ==
    \E n \in 0..Len(reason) :
        /\ msg = SubSeq(reason, 1, n)
        /\ \A i \in (n + 1)..Len(reason) : reason[i] \in {".", " "}
        /\ n > 0 => reason[n] \notin {".", " "}

\* What C7 says of the last one-shot call, with MsgOk(msg, reason) for what
\* it says of the message.
CallOutcome(MsgOk(_, _)) ==
    last # None =>
        LET a == last[1].answer
            o == last[1].outcome
        IN IF a.attrib.status # "passed"
           THEN /\ o.raised /\ o.response = None
                /\ o.exc[1].type = "APIError"
                /\ o.exc[1].errno # None
                /\ Str(o.exc[1].errno[1]) = a.attrib.errno
                /\ MsgOk(o.exc[1].msg, a.attrib.reason)
                /\ o.exc[1].failing_query # None
                /\ o.exc[1].failing_query[1].kids = <<Leaf("system-about", "")>>
                /\ o.exc[1].failing_query[1].attrib.vfiler
                      = (IF Truthy(last[1].context) THEN last[1].context
                         ELSE None)
           ELSE /\ ~o.raised /\ o.exc = None
                /\ o.response = Some(a)

\* C7 as stated: a status other than passed raises an APIError with the
\* errno of the answer as an integer, the reason of the answer as message
\* and the failing envelope; passed raises nothing and returns the answer.
FailedStatusRaises == CallOutcome(LAMBDA msg, reason : msg = reason)

\* C7 as amended: the message is the reason without the dots and blanks at
\* its end.
FailedStatusRaisesStripped == CallOutcome(IsRStripped)

\* C7 witness: a call failed with a reason that ends in a dot.
FailedStatusRaisesWitness ==
    /\ last # None /\ last[1].outcome.raised
    /\ last[1].outcome.exc[1].msg # last[1].answer.attrib.reason
    /\ last[1].outcome.exc[1].errno = Some(13001)

\* The values the records of the pages before the i-th one project to.
RECURSIVE PagesBefore(_, _)
PagesBefore(gn, i) ==
    IF i <= 1 THEN <<>>
    ELSE PagesBefore(gn, i - 1)
         \o XPathChildren(gn.answers[i - 1], gn.container_tag[1])

\* C8: when the answer to page n has a failed status, the generator ends
\* with that APIError in the same step and control is back in user code;
\* the values of pages 1..n-1 were yielded once each, in order; page n was
\* asked for once and nothing was asked after it.
FailedPageEndsSequence ==
    \A g \in Slots : \A i \in 1..Len(gens[g].answers) :
        gens[g].answers[i].attrib.status # "passed" =>
            /\ i = Len(gens[g].answers) /\ Len(gens[g].sent) = i
            /\ gens[g].counter = i
            /\ gens[g].pc = "raised" /\ ctl = <<>>
            /\ gens[g].exc # None /\ gens[g].exc[1].type = "APIError"
            /\ Str(gens[g].exc[1].errno[1]) = gens[g].answers[i].attrib.errno
            /\ Len(gens[g].out) = Len(PagesBefore(gens[g], i))
            /\ gens[g].constructor = "Event"
                  => gens[g].out = MapSeq(PagesBefore(gens[g], i), Event)
            /\ gens[g].constructor = "make_volume"
                  => \A j \in 1..Len(gens[g].out) :
                        gens[g].out[j].uuid
                           = FindText(PagesBefore(gens[g], i)[j],
                                      <<"volume-id-attributes", "uuid">>)

\* C8 witness: the third page of a listing failed after two pages of
\* records.
FailedPageEndsSequenceWitness ==
    \E g \in GenIds :
        /\ Len(gens[g].answers) = 3
        /\ gens[g].answers[3].attrib.status # "passed"
        /\ Len(gens[g].out) = 2 /\ gens[g].driver = "user"

\* C9: single_by_id returns the first event of the listing, and raises
\* KeyError, not APIError and not an empty record, when the listing ends
\* without one; single returns the first volume and raises IndexError when
\* the listing ends without one.  From an honest server the event returned
\* is the one with the id asked for.
SingleLookup ==
    \A g \in GenIds :
        LET gn == gens[g]
            D  == Matching(gn.initial[1], nrec)
        IN gn.result # None =>
             /\ gn.result[1].kind = "return" =>
                   /\ gn.out # <<>>
                   /\ gn.result[1].value = Some(gn.out[1])
             /\ (gn.driver = "single_by_id" /\ gn.pc = "done") =>
                   gn.result = Raises(OtherError("KeyError"))
             /\ (gn.driver = "single" /\ gn.pc = "done" /\ gn.out = <<>>) =>
                   gn.result = Raises(OtherError("IndexError"))
             /\ (gn.driver = "single_by_id" /\ gn.honest /\ gn.pc # "raised") =>
                   IF D = <<>> THEN gn.result = Raises(OtherError("KeyError"))
                   ELSE /\ gn.result = Returns(Event(D[1]))
                        /\ gn.result[1].value[1].id = gn.call[1].id
             /\ (gn.driver = "single" /\ gn.pc = "done") =>
                   IF D = <<>> THEN gn.result = Raises(OtherError("IndexError"))
                   ELSE gn.result[1].value[1].name = Some(gn.call[1].attrs[1][2])
             /\ gn.result[1].kind = "raise" /\ gn.result[1].exc[1].type = "APIError"
                   => gn.pc = "raised"

\* C9 witness: a lookup of an id past the last one was answered with an
\* empty page and raised KeyError.
SingleLookupWitness ==
    /\ gens[1].driver = "single_by_id" /\ gens[1].pc = "done"
    /\ gens[1].honest /\ Len(gens[1].sent) = 1 /\ nrec > 0
    /\ gens[1].result = Raises(OtherError("KeyError"))

\* C10: when a with_vserver block ends, normally or by an exception, the
\* vserver context is again what it was before the block was entered.
VserverRestored ==
    [][Len(stack') < Len(stack) => vfiler' = Top(stack)]_vars

\* C11: the tree of every query is, tags apart, the tree it was built
\* with, and so is the query in every request sent for it, whatever other
\* queries were made or advanced in between.
QueriesIndependent ==
    \A g \in GenIds : gens[g].pc # "idle" =>
        /\ WithoutTags(gens[g].api_call) = gens[g].initial[1]
        /\ \A i \in 1..Len(gens[g].sent) :
              WithoutTags(QuerySent(gens[g], i)) = gens[g].initial[1]

\* The answer is a page the generator goes through: it passed and holds
\* as many records as it says.
GoodPage(resp, container_tag) ==
    /\ resp.http_exc = "" /\ resp.status_code < 400
    /\ resp.attrib.status = "passed"
    /\ XPathTexts(resp, "num-records")
          = <<Str(Len(XPathChildren(resp, container_tag)))>>

\* The records of the answers of generator gn whose values it has
\* yielded: those of the pages before the last one and, of the last one,
\* those the loop has passed (but for the one still in its constructor,
\* or whose constructor raised).
Delivered(gn) ==
    LET n == Len(gn.answers)
    IN IF n = 0 THEN <<>>
       ELSE IF ~GoodPage(gn.answers[n], gn.container_tag[1])
       THEN PagesBefore(gn, n)
       ELSE PagesBefore(gn, n)
            \o SubSeq(XPathChildren(gn.answers[n], gn.container_tag[1]), 1,
                      IF gn.pc \in {"construct", "raised"}
                      THEN gn.idx - 1 ELSE gn.idx)

\* C12: a generator that was made and not pulled has sent nothing; a
\* request is sent only inside a pull of its generator; and request n+1 is
\* sent only after every record of pages 1..n was yielded.
LazyFetch ==
    /\ [](\A g \in Slots :
            /\ gens[g].pc = "created" => gens[g].sent = <<>>
            /\ \A i \in 2..Len(gens[g].sent) :
                  Len(gens[g].out) >= Len(PagesBefore(gens[g], i)))
    /\ [][\A g \in GenIds :
            Len(gens'[g].sent) > Len(gens[g].sent) =>
               /\ ctl # <<>> /\ ctl[1] = g
               /\ Len(gens'[g].sent) = Len(gens[g].sent) + 1]_vars

\* C12 witness: a listing in pages was left after the first record of its
\* second page, with two requests sent.
LazyFetchWitness ==
    /\ ctl = <<>> /\ gens[1].pc = "yielded" /\ gens[1].driver = "user"
    /\ Len(gens[1].sent) = 2 /\ Len(gens[1].out) = 2
    /\ XPathTexts(gens[1].answers[2], "next-tag") # <<>>

\* C13: what a generator has yielded is the constructor applied to the
\* records gone through, page after page and in the order of the page,
\* each once.
OrderedAndComplete ==
    \A g \in Slots :
        LET gn == gens[g]
        IN /\ Len(gn.out) = Len(Delivered(gn))
           /\ gn.constructor = "Event" => gn.out = MapSeq(Delivered(gn), Event)
           /\ gn.constructor = "extract_compression"
                 => gn.out = MapSeq(Delivered(gn), extract_compression)
           /\ gn.constructor = "make_volume"
                 => \A j \in 1..Len(gn.out) :
                       /\ gn.out[j].uuid
                             = FindText(Delivered(gn)[j],
                                        <<"volume-id-attributes", "uuid">>)
                       /\ gn.out[j].name
                             = FindText(Delivered(gn)[j],
                                        <<"volume-id-attributes", "name">>)

\* C13 witness: a listing was read to its end over two pages, three
\* records in all.
OrderedAndCompleteWitness ==
    \E g \in GenIds :
        /\ gens[g].pc = "done" /\ Len(gens[g].answers) = 2
        /\ Len(gens[g].out) = 3

\* The reply is a failure of the HTTP layer: it did not come, or came
\* with a status outside the 2xx class.
TransportFailed(resp) ==
    resp.http_exc # "" \/ resp.status_code \notin 200..299

\* C14: every perform_call sends one POST; when the HTTP layer fails, its
\* error is raised at once, the body is not decoded, nothing is sent again
\* and the sequence has ended with that error.
TransportFailureEndsCall ==
    \A g \in Slots :
        /\ Len(gens[g].sent) = Len(gens[g].answers)
        /\ gens[g].counter = Len(gens[g].sent)
        /\ \A i \in 1..Len(gens[g].answers) :
              TransportFailed(gens[g].answers[i]) =>
                 /\ i = Len(gens[g].answers)
                 /\ gens[g].pc = "raised" /\ gens[g].exc # None
                 /\ gens[g].exc[1].type \in HttpExceptions \cup {"HTTPError"}
                 /\ gens[g].response # Some(gens[g].answers[i])
                 /\ Len(gens[g].out) = Len(PagesBefore(gens[g], i))

\* The APIError perform_call raises for the call of a log entry that the
\* server failed.
ErrorOf(entry) ==
    APIError(entry.answer.attrib.reason,
             Some(IntOf(entry.answer.attrib.errno)),
             Some(Envelope(entry.query, vfiler, DEFAULT_APP_NAME)))

\* The positions in the log of the last operation of the export-rule-create
\* calls that failed.
FailedAdds ==
    {k \in 1..Len(last[1].log) :
        /\ last[1].log[k].query.name = "export-rule-create"
        /\ last[1].log[k].answer.attrib.status # "passed"}

\* C15 as stated: when a rule of create_export_policy fails with an
\* APIError, export-policy-destroy is sent, the same APIError is raised,
\* and the policy does not exist afterwards.
CreateAllOrNothing ==
    (last # None /\ last[1].op = "create_export_policy") =>
        \A k \in FailedAdds :
            /\ \E j \in (k + 1)..Len(last[1].log) :
                  last[1].log[j].query = ExportPolicyDestroyQuery("p")
            /\ last[1].result = Raises(ErrorOf(last[1].log[k]))
            /\ srv.policy = None

\* C15 as amended: the destroy is the next and last call; when it passes
\* the APIError of the rule is raised and the policy is gone; when it
\* fails its own APIError is raised instead and the policy stays, with
\* the rules added before the one that failed.
CreateRollsBack ==
    (last # None /\ last[1].op = "create_export_policy") =>
        \A k \in FailedAdds :
            LET log == last[1].log
            IN /\ Len(log) = k + 1
               /\ log[k + 1].query = ExportPolicyDestroyQuery("p")
               /\ IF log[k + 1].answer.attrib.status = "passed"
                  THEN /\ last[1].result = Raises(ErrorOf(log[k]))
                       /\ srv.policy = None
                  ELSE /\ last[1].result = Raises(ErrorOf(log[k + 1]))
                       /\ srv.policy
                            = Some({[index |-> i, rule |-> last[1].args[1][i]] :
                                      i \in 1..(k - 2)})

\* C15 witness: the third rule was refused after two were added, and the
\* policy was deleted.
CreateRollsBackWitness ==
    /\ last # None /\ last[1].op = "create_export_policy"
    /\ FailedAdds = {4} /\ Len(last[1].log) = 5
    /\ last[1].log[5].answer.attrib.status = "passed"
    /\ srv.policy = None

\* What export_rules_of returns for the policy now on the server, for
\* every order in which the server may list the rules.
ReadsBack(pairs) ==
    \A ord \in {"asc", "desc"} :
        export_rules_of(Session(srv.policy, 0, ord), "p").result
           = Returns([k \in 1..Len(pairs) |-> <<Some(k), Some(pairs[k])>>])

\* C16: a create_export_policy that returned has created the rules with
\* the indices 1..n in the order given, and export_rules_of returns
\* (1, r1) .. (n, rn).
CreateKeepsOrder ==
    (/\ last # None /\ last[1].op = "create_export_policy"
     /\ last[1].result[1].kind = "return" /\ last[1].args # None) =>
        LET rules == last[1].args[1]
        IN /\ Len(last[1].log) = Len(rules) + 1
           /\ \A k \in 1..Len(rules) :
                 last[1].log[k + 1].query = ExportRuleCreateQuery("p", rules[k], k)
           /\ ReadsBack(rules)

\* C16 witness: a policy was created with three rules, not in the order
\* of their names.
CreateKeepsOrderWitness ==
    /\ last # None /\ last[1].op = "create_export_policy"
    /\ last[1].result[1].kind = "return"
    /\ last[1].args = Some(<<"r1", "r2", "r1">>)
    /\ Cardinality(srv.policy[1]) = 3

\* The rules of a policy by ascending index, but for the one at index i.
Remaining(policy, i) ==
    SelectSeq(ByIndex(policy[1]), LAMBDA r : r.index # i)

\* C17: a remove_export_rule(policy, i) that returned has destroyed rule
\* i, then set the index of every remaining rule, in ascending order of
\* index, to its position; no set-index named an index held by another
\* rule; and the remaining rules now have the indices 1..n-1 in the order
\* they had.
RemoveRenumbers ==
    (/\ last # None /\ last[1].op = "remove_export_rule"
     /\ last[1].result[1].kind = "return") =>
        LET i   == last[1].args[1]
            rem == Remaining(last[1].before, i)
            log == last[1].log
        IN /\ Len(log) = Len(rem) + 2
           /\ log[1].query = ExportRuleDestroyQuery("p", i)
           /\ Cardinality(last[1].before[1]) = Len(rem) + 1
           /\ \A k \in 1..Len(rem) :
                 log[k + 2].query = ExportRuleSetIndexQuery("p", rem[k].index, k)
           /\ ~last[1].clash
           /\ srv.policy = Some({[index |-> k, rule |-> rem[k].rule] :
                                    k \in 1..Len(rem)})

\* C17 witness: the first of three rules was removed and the two others
\* moved up.
RemoveRenumbersWitness ==
    /\ last # None /\ last[1].op = "remove_export_rule"
    /\ last[1].result[1].kind = "return" /\ last[1].args = <<1>>
    /\ Cardinality(last[1].before[1]) = 3
    /\ \E r \in srv.policy[1] : r.index = 2

\* C18: add_export_rule without index sends rule-index 1, and after rules
\* were added so, last to first, to a policy created empty, export_rules_of
\* returns them first to last with the indices 1..n.
AddAtHead ==
    /\ (last # None /\ last[1].op = "add_export_rule()") =>
          FindText(last[1].log[1].query, <<"rule-index">>) = Some("1")
    /\ (srv.heads # None /\ srv.policy # None) => ReadsBack(Reverse(srv.heads[1]))

\* C18 witness: three rules were added without index.
AddAtHeadWitness ==
    /\ srv.heads = Some(<<"r1", "r2", "r2">>)
    /\ last # None /\ last[1].op = "add_export_rule()"

\* C19: set_volume_autosize validates before sending.  Enabled without a
\* max_size_bytes (None or 0) it raises TypeError and sends nothing;
\* disabled it sends one volume-autosize-set with is-enabled false and
\* neither maximum-size nor mode.
AutosizeQuerySent(entry) == entry.sent[1].kids[1]
AutosizeValidated ==
    (last # None /\ last[1].op = "set_volume_autosize") =>
        /\ (last[1].args.autosize_enabled
              /\ last[1].args.max_size_bytes \in {None, Some(0)})
           => /\ last[1].sent = <<>>
              /\ last[1].raised
              /\ last[1].exc[1].type = "TypeError"
        /\ ~last[1].args.autosize_enabled
           => /\ Len(last[1].sent) = 1
              /\ AutosizeQuerySent(last[1]).name = "volume-autosize-set"
              /\ FindText(AutosizeQuerySent(last[1]), <<"volume">>)
                   = Some(last[1].args.volume_name)
              /\ FindText(AutosizeQuerySent(last[1]), <<"is-enabled">>)
                   = Some("false")
              /\ ElFind(AutosizeQuerySent(last[1]), "maximum-size") = None
              /\ ElFind(AutosizeQuerySent(last[1]), "mode") = None

AutosizeValidatedWitness ==
    /\ last # None
    /\ last[1].op = "set_volume_autosize"
    /\ last[1].args.autosize_enabled
    /\ last[1].args.max_size_bytes = Some(0)
    /\ last[1].sent = <<>>
    /\ last[1].raised

\* C20: batch answers are checked.  The operations built on
\* volume_modify_iter and break_lock raise APIError unless the answer
\* reports exactly one success and zero failures; with a failure-list the
\* APIError carries the code and the message of its first entry;
\* destroy_volume raises APIError for the first failure-list entry.
BatchOps ==
    {"take_volume_offline", "set_volume_export_policy",
     "set_volume_snapshot_reserve", "set_volume_caching_policy",
     "break_lock"}
ReportsSingle(answer) ==
    /\ answer.attrib.status = "passed"
    /\ FindText(answer, <<"num-succeeded">>) = Some("1")
    /\ FindText(answer, <<"num-failed">>) = Some("0")
HasFailure(answer) ==
    /\ answer.attrib.status = "passed"
    /\ XPathChildren(answer, "failure-list") # <<>>
FirstFailure(answer) == XPathChildren(answer, "failure-list")[1]
RaisedAPIError(entry) == entry.raised /\ entry.exc[1].type = "APIError"
CarriesCode(entry) ==
    entry.exc[1].errno = Some(IntOf(FirstFailure(entry.answer).kids[1].text))
BatchChecked(entry, Message(_)) ==
    /\ (entry.op \in BatchOps /\ ~ReportsSingle(entry.answer))
       => RaisedAPIError(entry)
    /\ (entry.op \in BatchOps /\ HasFailure(entry.answer))
       => /\ RaisedAPIError(entry)
          /\ CarriesCode(entry)
          /\ entry.exc[1].msg = Message(FirstFailure(entry.answer).kids[2].text)
    /\ (entry.op = "destroy_volume" /\ HasFailure(entry.answer))
       => RaisedAPIError(entry) /\ CarriesCode(entry)

\* C20 as stated: the message of the entry as the server wrote it.
BatchAnswersChecked ==
    (last # None /\ last[1].op \in BatchOps \cup {"destroy_volume"}) =>
        BatchChecked(last[1], LAMBDA m : m)

\* C20, amended: the message of the entry without the dots and blanks at
\* its end.
BatchAnswersCheckedStripped ==
    (last # None /\ last[1].op \in BatchOps \cup {"destroy_volume"}) =>
        BatchChecked(last[1], LAMBDA m : RStrip(m, {".", " "}))

BatchAnswersCheckedWitness ==
    /\ last # None
    /\ last[1].op = "take_volume_offline"
    /\ FindText(last[1].answer, <<"num-succeeded">>) = Some("1")
    /\ FindText(last[1].answer, <<"num-failed">>) = Some("0")
    /\ HasFailure(last[1].answer)
    /\ Len(XPathChildren(last[1].answer, "failure-list")) = 2
    /\ FirstFailure(last[1].answer).kids[2].text = <<"B", "a", "d", ".">>
    /\ last[1].raised
    /\ last[1].exc[1].msg = <<"B", "a", "d">>

Count(api_call, name) == Cardinality(ChildIdx(api_call, name))
Contributes(api_call, given, name) ==
    Count(api_call, name) = IF given = None THEN 0 ELSE 1
EventFilterTimeout ==
    (last # None /\ last[1].op = "events.filter") =>
        /\ Count(last[1].api_call, "timeout") = 1
        /\ last[1].kw.timeout = None
             => FindText(last[1].api_call, <<"timeout">>) = Some("0")
        /\ last[1].kw.time_range # None
             => FindText(last[1].api_call, <<"timeout">>) = Some("0")
        /\ Contributes(last[1].api_call, last[1].kw.greater_than_id,
                       "greater-than-id")
        /\ Contributes(last[1].api_call, last[1].kw.time_range, "time-range")
        /\ Contributes(last[1].api_call, last[1].kw.states,
                       "event-state-filter-list")
        /\ Contributes(last[1].api_call, last[1].kw.severities,
                       "event-severities")
        /\ Contributes(last[1].api_call, last[1].kw.max_records, "max-records")
        /\ Contributes(last[1].api_call, last[1].kw.source, "source")
        /\ Len(last[1].api_call.kids)
             = 1 + Cardinality({f \in {"greater_than_id", "time_range", "states",
                                       "severities", "max_records", "source"} :
                                   last[1].kw[f] # None})

\* The queries a run sent, by name; an answer that passes; an answer that
\* makes perform_call raise an APIError.
SentNames(entry) == [i \in 1..Len(entry.sent) |-> entry.sent[i].kids[1].name]
IsPrefix(s, t) == Len(s) <= Len(t) /\ s = SubSeq(t, 1, Len(s))
Accepted(answer) == answer.status_code = 200 /\ answer.attrib.status = "passed"
Refused(answer) == answer.status_code = 200 /\ answer.attrib.status # "passed"
RaisedFrom(entry, answer) ==
    /\ entry.raised
    /\ entry.exc[1].type = "APIError"
    /\ entry.exc[1].errno = Some(IntOf(answer.attrib.errno))
    /\ entry.exc[1].msg = RStrip(answer.attrib.reason, {".", " "})

\* C23: volume creation enables compression by default.  create_volume
\* with compression and inline_compression at their defaults sends
\* volume-create, sis-enable and sis-set-config in this order, the last
\* with both flags 'true'; when volume-create fails with an APIError
\* neither sis call is sent and the error reaches the caller.
CreateEnablesCompression ==
    (/\ last # None /\ last[1].op = "create_volume"
     /\ last[1].args.compression /\ last[1].args.inline_compression) =>
        /\ Len(last[1].sent) >= 1
        /\ IsPrefix(SentNames(last[1]),
                    <<"volume-create", "sis-enable", "sis-set-config">>)
        /\ (/\ Accepted(last[1].answers[1])
            /\ \/ Accepted(last[1].answers[2])
               \/ /\ Refused(last[1].answers[2])
                  /\ last[1].answers[2].attrib.errno = Str(ERR_ALREADY_ENABLED))
           => /\ Len(last[1].sent) = 3
              /\ last[1].sent[3].kids[1]
                   = SisSetConfigQuery(TRUE, TRUE, "/vol/" \o last[1].args.name)
              /\ last[1].sent[2].kids[1]
                   = SisEnableQuery("/vol/" \o last[1].args.name)
        /\ ~last[1].raised => Len(last[1].sent) = 3
        /\ Refused(last[1].answers[1])
           => /\ Len(last[1].sent) = 1
              /\ RaisedFrom(last[1], last[1].answers[1])

CreateEnablesCompressionWitness ==
    /\ last # None /\ last[1].op = "create_volume"
    /\ last[1].args.compression /\ last[1].args.inline_compression
    /\ last[1].args.export_policy_name = None
    /\ last[1].args.caching_policy = None
    /\ \A i \in 1..3 : Accepted(last[1].answers[i])
    /\ Len(last[1].sent) = 3
    /\ ~last[1].raised

\* C25: set_compression tolerates 'already enabled'.  When sis-enable
\* fails with APIError errno 13001 the error is dropped and sis-set-config
\* is still sent, so a second call in a row with the same arguments
\* succeeds like the first; when sis-enable fails with any other APIError
\* that error reaches the caller and sis-set-config is not sent.
ToleratesAlreadyEnabled ==
    (last # None /\ last[1].op = "set_compression" /\ last[1].sent # <<>>) =>
        /\ (/\ Refused(last[1].answers[1])
            /\ last[1].answers[1].attrib.errno = "13001")
           => /\ SentNames(last[1]) = <<"sis-enable", "sis-set-config">>
              /\ Accepted(last[1].answers[2]) => ~last[1].raised
              /\ Refused(last[1].answers[2])
                   => RaisedFrom(last[1], last[1].answers[2])
        /\ (/\ Refused(last[1].answers[1])
            /\ last[1].answers[1].attrib.errno # "13001")
           => /\ SentNames(last[1]) = <<"sis-enable">>
              /\ RaisedFrom(last[1], last[1].answers[1])
        /\ last[1].round = 2
           => ~last[1].raised /\ Len(last[1].sent) = 2

ToleratesAlreadyEnabledWitness ==
    /\ last # None /\ last[1].op = "set_compression"
    /\ last[1].round = 2
    /\ Refused(last[1].answers[1])
    /\ last[1].answers[1].attrib.errno = "13001"
    /\ SentNames(last[1]) = <<"sis-enable", "sis-set-config">>
    /\ ~last[1].raised

\* C26: set_compression rejects inline-only compression.  With enabled
\* false and inline true it raises ValueError and sends nothing; for every
\* other combination it sends sis-enable and then sis-set-config with the
\* two flags as 'true' / 'false'.
FlagText(flag) == IF flag THEN "true" ELSE "false"
RejectsInlineOnly ==
    (last # None /\ last[1].op = "set_compression") =>
        IF ~last[1].args.enabled /\ last[1].args.inline
        THEN /\ last[1].sent = <<>>
             /\ last[1].raised
             /\ last[1].exc[1].type = "ValueError"
        ELSE /\ Len(last[1].sent) >= 1
             /\ IsPrefix(SentNames(last[1]), <<"sis-enable", "sis-set-config">>)
             /\ FindText(last[1].sent[1].kids[1], <<"path">>)
                  = Some("/vol/" \o last[1].args.volume_name)
             /\ ~last[1].raised => Len(last[1].sent) = 2
             /\ Accepted(last[1].answers[1]) => Len(last[1].sent) = 2
             /\ Len(last[1].sent) = 2
                => /\ FindText(last[1].sent[2].kids[1], <<"enable-compression">>)
                        = Some(FlagText(last[1].args.enabled))
                   /\ FindText(last[1].sent[2].kids[1],
                               <<"enable-inline-compression">>)
                        = Some(FlagText(last[1].args.inline))
                   /\ FindText(last[1].sent[2].kids[1], <<"path">>)
                        = Some("/vol/" \o last[1].args.volume_name)

RejectsInlineOnlyWitness ==
    /\ last # None /\ last[1].op = "set_compression"
    /\ ~last[1].args.enabled /\ last[1].args.inline
    /\ last[1].sent = <<>>
    /\ last[1].raised

\* C27: restrict_volume ordering.  volume-unmount is sent first and
\* volume-restrict second; when volume-unmount fails with an APIError
\* volume-restrict is never sent and the error reaches the caller.
RestrictOrdering ==
    (last # None /\ last[1].op = "restrict_volume") =>
        /\ Len(last[1].sent) >= 1
        /\ last[1].sent[1].kids[1]
             = El("volume-unmount", "",
                  <<Leaf("volume-name", last[1].args.volume_name)>>)
        /\ Accepted(last[1].answers[1])
           => /\ Len(last[1].sent) = 2
              /\ last[1].sent[2].kids[1]
                   = El("volume-restrict", "",
                        <<Leaf("name", last[1].args.volume_name)>>)
        /\ Refused(last[1].answers[1])
           => /\ Len(last[1].sent) = 1
              /\ RaisedFrom(last[1], last[1].answers[1])

RestrictOrderingWitness ==
    /\ last # None /\ last[1].op = "restrict_volume"
    /\ Refused(last[1].answers[1])
    /\ Len(last[1].sent) = 1
    /\ last[1].raised

\* C30: create_volume validates compression only after creating.  Called
\* with compression false and inline_compression true it sends
\* volume-create first and, once that has passed, raises the ValueError of
\* set_compression without sending sis-enable or sis-set-config: the call
\* fails and the volume stays on the server.
CreateValidatesLate ==
    (/\ last # None /\ last[1].op = "create_volume"
     /\ ~last[1].args.compression /\ last[1].args.inline_compression) =>
        /\ SentNames(last[1]) = <<"volume-create">>
        /\ FindText(last[1].sent[1].kids[1], <<"volume">>)
             = Some(last[1].args.name)
        /\ last[1].raised
        /\ Accepted(last[1].answers[1])
           => /\ last[1].exc[1].type = "ValueError"
              /\ last[1].created = {last[1].args.name}

CreateValidatesLateWitness ==
    /\ last # None /\ last[1].op = "create_volume"
    /\ ~last[1].args.compression /\ last[1].args.inline_compression
    /\ Accepted(last[1].answers[1])
    /\ last[1].raised
    /\ last[1].exc[1].type = "ValueError"
    /\ last[1].created = {"vol1"}

\* C28: nested compression lookup in volume listings.  For each volume
\* record of a volume listing one nested sis-get-iter query is started, and
\* its first record is read before the Volume is yielded; when the nested
\* query yields no record the Volume has both compression flags False;
\* while the nested query runs, the tag and the position of the outer
\* listing do not change, and the Volume yielded is that of the record the
\* listing was at.
VolumeName(el) == FindText(el, <<"volume-id-attributes", "name">>)
VolumeVserver(el) == FindText(el, <<"volume-id-attributes", "owning-vserver-name">>)
NestedStarted(g) ==
    (gens[g].constructor = "make_volume" /\ gens[g].pc = "loop"
       /\ gens'[g].pc = "construct")
    => /\ gens'[g].idx = gens[g].idx + 1
       /\ ctl' = Append(ctl, SisSlot)
       /\ gens'[SisSlot].sent = <<>> /\ gens'[SisSlot].out = <<>>
       /\ gens'[SisSlot].api_call.name = "sis-get-iter"
       /\ FindText(gens'[SisSlot].api_call, <<"query", "sis-status-info", "path">>)
            = Some("/vol/" \o VolumeName(Records(gens[g])[gens'[g].idx])[1])
       /\ FindText(gens'[SisSlot].api_call, <<"query", "sis-status-info", "vserver">>)
            = VolumeVserver(Records(gens[g])[gens'[g].idx])
VolumeYielded(g) ==
    (gens[g].constructor = "make_volume"
       /\ Len(gens'[g].out) = Len(gens[g].out) + 1)
    => LET el == Records(gens[g])[gens[g].idx]
           v == gens'[g].out[Len(gens'[g].out)]
           nested == gens'[SisSlot]
       IN /\ gens[g].pc = "construct"
          /\ ctl # <<>> /\ Top(ctl) = SisSlot /\ Top(Pop(ctl)) = g
          /\ nested.initial = gens[SisSlot].initial
          /\ nested.sent # <<>>
          /\ nested.pc \in {"yielded", "done"}
          /\ v.name = VolumeName(el) /\ v.uuid = FindText(el, <<"volume-id-attributes", "uuid">>)
          /\ nested.pc = "done"
             => /\ nested.out = <<>>
                /\ ~v.compression_enabled /\ ~v.inline_compression
          /\ nested.pc = "yielded"
             => /\ Len(nested.out) = 1
                /\ v.compression_enabled
                     = (FindText(Delivered(nested)[1], <<"is-compression-enabled">>)
                          = Some("true"))
                /\ v.inline_compression
                     = (FindText(Delivered(nested)[1],
                                 <<"is-inline-compression-enabled">>)
                          = Some("true"))
OuterUntouched ==
    (ctl # <<>> /\ Top(ctl) = SisSlot)
    => LET p == Top(Pop(ctl))
       IN /\ gens'[p].api_call = gens[p].api_call
          /\ gens'[p].response = gens[p].response
          /\ gens'[p].idx = gens[p].idx
          /\ gens'[p].sent = gens[p].sent
NestedCompressionLookup ==
    [][/\ \A g \in GenIds : NestedStarted(g) /\ VolumeYielded(g)
       /\ OuterUntouched]_vars

\* C28 witness: a listing has yielded three volumes, the second with SIS
\* off and so without compression, the third with compression on and
\* inline compression off as its SIS record says.
NestedCompressionLookupWitness ==
    /\ gens[1].constructor = "make_volume"
    /\ Len(gens[1].out) = 3
    /\ gens[1].out[1].compression_enabled /\ gens[1].out[1].inline_compression
    /\ ~gens[1].out[2].compression_enabled /\ ~gens[1].out[2].inline_compression
    /\ gens[1].out[3].compression_enabled /\ ~gens[1].out[3].inline_compression
    /\ gens[SisSlot].pc = "yielded"

\* C24: envelope scoping.  Every request is an envelope made for it that
\* holds exactly one query; the envelope carries the vfiler attribute if
\* and only if the vserver context is a non-empty string when the request
\* is sent, with that string as its value; inside with_vserver(None) and
\* with_vserver('') requests go out without the attribute.
Scoped(request, context) ==
    /\ request.name = "netapp"
    /\ Len(request.kids) = 1
    /\ request.attrib.vfiler # None <=> (context # None /\ context[1] # "")
    /\ request.attrib.vfiler # None => request.attrib.vfiler = context
EnvelopeScoping ==
    last # None =>
        /\ Scoped(last[1].outcome.request, last[1].context)
        /\ last[1].outcome.request.kids[1] = Leaf("system-about", "")

\* C24 witness: a call made inside with_vserver(None) went out without
\* the attribute.
EnvelopeScopingWitness ==
    /\ last # None
    /\ last[1].context = None
    /\ last[1].outcome.request.attrib.vfiler = None
    /\ stack # <<>>
    /\ vfiler = None

\* C29: the vserver context is read per page at send time.  Each page
\* request of a paginated sequence carries the context in force when that
\* page is fetched, whatever the context was when the sequence was made.
ContextReadPerPage ==
    [][\A g \in GenIds :
         Len(gens'[g].sent) > Len(gens[g].sent) =>
            /\ Len(gens'[g].sent) = Len(gens[g].sent) + 1
            /\ vfiler' = vfiler
            /\ Scoped(gens'[g].sent[Len(gens'[g].sent)].request, vfiler)]_vars

\* C29 witness: a sequence made inside with_vserver('vs1') was pulled after
\* the block had ended, its first page going out without vfiler, and
\* pulled again inside another block, its second page going out with it.
ContextReadPerPageWitness ==
    /\ gens[1].made_in = Some(Some("vs1"))
    /\ Len(gens[1].sent) = 2
    /\ gens[1].sent[1].request.attrib.vfiler = None
    /\ gens[1].sent[2].request.attrib.vfiler = Some("vs1")

====
